---- MODULE Spec2Model ----
(***************************************************************************)
(* Model of the provisioning engine of xivo-provisioning                   *)
(* (provd/app.py, class ProvisioningApplication): the device and config    *)
(* collections, the plugin manager's installed/loaded sets, and the        *)
(* dev_*, cfg_* and pg_* operations with their deconfigure/configure       *)
(* side effects on plugins.                                                *)
(*                                                                         *)
(* Every operation runs under the engine's reader/writer lock for its      *)
(* whole duration, so each one is a single atomic action here.  The calls  *)
(* an operation makes on plugins and on the two collections are recorded,  *)
(* in order, in the history variable `log`; `op` names the operation.      *)
(***************************************************************************)
EXTENDS Integers, Sequences, FiniteSets, TLC

\* ------------------------------------------------------------------ bounds
NumDevices == 2
NumConfigs == 2
NumPlugins == 1
MaxParents == 1
NumTasks == 3
MaxOips == 2
MaxSize == 2
MaxChunk == 2
MaxCurrent == 4
MaxFed == 3
NumSeenDevices == 3
MaxFiles == 3
MaxLines == 2
MaxVendor == 3

None == 0
DevIds == 1..NumDevices
CfgIds == 1..NumConfigs
PluginIds == 1..NumPlugins

\* ---------------------------------------------------------------- helpers
RECURSIVE SortedSeq(_)
SortedSeq(S) ==
    IF S = {} THEN <<>>
    ELSE LET m == CHOOSE x \in S : \A y \in S : x <= y
         IN  <<m>> \o SortedSeq(S \ {m})

RECURSIVE Concat(_)
Concat(ss) == IF ss = <<>> THEN <<>> ELSE Head(ss) \o Concat(Tail(ss))

SeqsUpTo(S, n) == UNION {[1..k -> S] : k \in 0..n}

Range(s) == {s[i] : i \in DOMAIN s}

\* ------------------------------------------------------------ raw configs
\* A raw config is a mapping from parameter names to values.
EmptyRaw == [k \in {} |-> 0]

base_raw_config == ("ip" :> 1) @@ ("http_port" :> 8667) @@ ("tftp_port" :> 69)

Has(raw, k) == k \in DOMAIN raw

Truthy(raw, k) == Has(raw, k) /\ raw[k] # 0

\* dict.update: the keys of `over` replace those of `under`
Merge(under, over) ==
    [k \in DOMAIN under \cup DOMAIN over |->
        IF k \in DOMAIN over THEN over[k] ELSE under[k]]

_check_common_raw_config_validity(raw) ==
    \A param \in {"ip", "http_port", "tftp_port"} : Has(raw, param)

\* Mutant: only the common parameters are required.
_check_raw_config_validity_common_only(raw) ==
    _check_common_raw_config_validity(raw)

_check_raw_config_validity(raw) ==
    /\ _check_common_raw_config_validity(raw)
    /\ Truthy(raw, "ntp_enabled") => Has(raw, "ntp_ip")
    /\ Truthy(raw, "vlan_enabled") => Has(raw, "vlan_id")
    /\ Truthy(raw, "syslog_enabled") => Has(raw, "syslog_ip")
    /\ Has(raw, "sip_lines") =>
          \A line_no \in DOMAIN raw["sip_lines"] :
             LET line == raw["sip_lines"][line_no] IN
             /\ Has(line, "proxy_ip") \/ Has(raw, "sip_proxy_ip")
             /\ (Has(raw, "protocol") /\ raw["protocol"] = "SIP") =>
                   \A param \in {"username", "password", "display_name"} :
                      Has(line, param)
    /\ Has(raw, "sccp_call_managers") =>
          \A priority \in DOMAIN raw["sccp_call_managers"] :
             Has(raw["sccp_call_managers"][priority], "ip")
    /\ Has(raw, "funckeys") =>
          \A funckey_no \in DOMAIN raw["funckeys"] :
             LET funckey == raw["funckeys"][funckey_no] IN
             /\ Has(funckey, "type")
             /\ funckey["type"] \in {"speeddial", "blf"} => Has(funckey, "value")

\* ------------------------------------------------------ config collection
\* The configs transitively inheriting from id (id itself excluded unless it
\* is its own descendant), over the stored configs C.
RECURSIVE DescendantsFrom(_, _, _)
DescendantsFrom(C, frontier, seen) ==
    LET children == {c \in DOMAIN C :
                        \E p \in frontier : p \in Range(C[c].parent_ids)} \ seen
    IN  IF children = {} THEN seen
        ELSE DescendantsFrom(C, children, seen \cup children)

get_descendants(C, id) == DescendantsFrom(C, {id}, {})

\* The flattened raw config of a stored config: its parents' in list order,
\* then its own on top; a parent id that names no stored config adds nothing.
RECURSIVE Flattened(_, _, _, _)
Flattened(C, id, under, visited) ==
    IF id \notin DOMAIN C \/ id \in visited THEN under
    ELSE LET ps == C[id].parent_ids
             RECURSIVE Fold(_, _)
             Fold(i, acc) ==
                 IF i > Len(ps) THEN acc
                 ELSE Fold(i + 1, Flattened(C, ps[i], acc, visited \cup {id}))
         IN  Merge(Fold(1, under), C[id].raw_config)

\* [found |-> FALSE] stands for the None result.
get_raw_config(C, id, base) ==
    IF id \notin DOMAIN C THEN [found |-> FALSE, raw |-> EmptyRaw]
    ELSE [found |-> TRUE, raw |-> Flattened(C, id, base, {})]

\* Would storing config id with these parent_ids close a cycle ?
ClosesCycle(C, id, parent_ids) ==
    LET C2 == [c \in DOMAIN C \cup {id} |->
                  IF c = id THEN [parent_ids |-> parent_ids] ELSE [parent_ids |-> C[c].parent_ids]]
    IN  id \in DescendantsFrom(C2, {id}, {})

\* collection.delete refuses an unknown id and a document with deletable = false
cfg_collection_delete(C, id) ==
    IF id \notin DOMAIN C THEN "InvalidIdError"
    ELSE IF ~C[id].deletable THEN "NonDeletableError"
    ELSE "ok"

Remove(f, x) == [y \in DOMAIN f \ {x} |-> f[y]]

\* ---------------------------------------------------- device collection
needs_reconfiguration(old_device, new_device) ==
    \/ old_device.plugin # new_device.plugin
    \/ old_device.config # new_device.config

\* ------------------------------------------------------------------ state
VARIABLES
    devs,        \* device collection: id -> [plugin, config, configured]
    cfgs,        \* config collection: id -> [parent_ids, raw_config, transient, deletable]
    installed,   \* plugin manager: ids of the installed plugins
    loaded,      \* plugin manager: ids of the loaded plugins
    op,          \* the operation just run: [name, id, doc, res]
    log,         \* the plugin and collection calls of that operation, in order
    rw_lock,     \* the engine's reader/writer lock
    tasks,       \* the calls of engine operations: task -> [name, state]
    oips,        \* plugin installs and upgrades with their operations in progress
    tenants,     \* the engine's tenant and the tenant fields of the devices
    service,     \* the parameters of the configure service and the last PUT
    dhcp,        \* the last DHCP information posted and its answer
    ident,       \* the device-info updaters of the identification pipeline
    multi,       \* a sequential download of several files and its operation in progress
    checked,     \* the last raw config handed to a configure attempt and its outcome
    helper       \* the request helper's last update step: its device, the updater and dev_update calls

vars == <<devs, cfgs, installed, loaded, op, log, rw_lock, tasks, oips, tenants, service, dhcp, ident, multi, checked, helper>>

engine_vars == <<devs, cfgs, installed, loaded, op, log>>

lock_vars == <<rw_lock, tasks>>

\* What the engine operations, the lock and the installs leave alone.
not_engine_vars == <<rw_lock, tasks, oips, tenants, service, dhcp, ident, multi, checked, helper>>

not_lock_vars == <<devs, cfgs, installed, loaded, op, log, oips, tenants, service, dhcp, ident, multi, checked, helper>>

not_oip_vars == <<devs, cfgs, installed, loaded, op, log, rw_lock, tasks, tenants, service, dhcp, ident, multi, checked, helper>>

not_tenant_vars == <<devs, cfgs, installed, loaded, op, log, rw_lock, tasks, oips, service, dhcp, ident, multi, checked, helper>>

not_service_vars == <<devs, cfgs, installed, loaded, op, log, rw_lock, tasks, oips, tenants, dhcp, ident, multi, checked, helper>>

not_dhcp_vars == <<devs, cfgs, installed, loaded, op, log, rw_lock, tasks, oips, tenants, service, ident, multi, checked, helper>>

not_ident_vars == <<devs, cfgs, installed, loaded, op, log, rw_lock, tasks, oips, tenants, service, dhcp, multi, checked, helper>>

not_multi_vars == <<devs, cfgs, installed, loaded, op, log, rw_lock, tasks, oips, tenants, service, dhcp, ident, checked, helper>>

not_checked_vars == <<devs, cfgs, installed, loaded, op, log, rw_lock, tasks, oips, tenants, service, dhcp, ident, multi, helper>>

not_helper_vars == <<devs, cfgs, installed, loaded, op, log, rw_lock, tasks, oips, tenants, service, dhcp, ident, multi, checked>>

\* --------------------------------------------------------- device helpers
\* pg_mgr.get(device.plugin), None when the device names no loaded plugin;
\* L is the set of loaded plugins at the time of the call.
_dev_get_plugin(L, device) ==
    IF device.plugin # None /\ device.plugin \in L THEN device.plugin ELSE None

_dev_get_raw_config(C, device) ==
    IF device.config # None THEN get_raw_config(C, device.config, base_raw_config)
    ELSE [found |-> FALSE, raw |-> EmptyRaw]

\* Result of a configure attempt: the returned flag and the plugin calls made.
\* `raises` tells whether plugin.configure raises when called.
_dev_configure(id, raw_config, raises) ==
    IF ~_check_raw_config_validity(raw_config)
    THEN [configured |-> FALSE, calls |-> <<>>]
    ELSE [configured |-> ~raises, calls |-> << <<"configure", id, raises>> >>]

_dev_configure_if_possible(L, C, id, device, raises) ==
    LET plugin == _dev_get_plugin(L, device)
        rc == _dev_get_raw_config(C, device)
    IN  IF plugin = None \/ ~rc.found
        THEN [configured |-> FALSE, calls |-> <<>>]
        ELSE _dev_configure(id, rc.raw, raises)

\* The plugin calls of a deconfigure; the returned flag is never used.
_dev_deconfigure(id, raises) == << <<"deconfigure", id, raises>> >>

_dev_deconfigure_if_possible(L, id, device, raises) ==
    IF _dev_get_plugin(L, device) = None THEN <<>>
    ELSE _dev_deconfigure(id, raises)

\* Between two operations: nothing is in progress.
NoDoc == [plugin |-> None, config |-> None, configured |-> FALSE]

Idle == [name |-> "idle", id |-> None, doc |-> NoDoc, res |-> "ok"]

\* ------------------------------------------------------ reader/writer lock
\* DeferredRWLock: the number of functions running under the read lock,
\* whether one runs under the write lock, and the two queues of waiting
\* requests (task ids, in the order of their requests).
TaskIds == 1..NumTasks

NoTask == [name |-> "none", state |-> "new", failed |-> FALSE]

DeferredRWLock ==
    [reading |-> 0, writing |-> FALSE,
     waiting_readers |-> <<>>, waiting_writers |-> <<>>]

\* ------------------------------------------------- operations in progress
OIP_PROGRESS == "progress"
OIP_SUCCESS == "success"
OIP_FAIL == "fail"

\* No plugin is installed, no install or upgrade was asked for.
NoCall == [name |-> "none", id |-> None, res |-> "ok"]

NoOips == [installed |-> {}, list |-> <<>>, call |-> NoCall]

\* ------------------------------------------------------------------ tenants
\* Tenant values as texts: "None" is Python's None, "absent" a missing key.
TenantUuids == {"tenant-a", "tenant-b"}

NoTenantDoc == [tenant_uuid |-> "absent", is_new |-> FALSE]

NoTenants ==
    [engine |-> "None",
     devs |-> [d \in DevIds |-> NoTenantDoc],
     last |-> [id |-> None, input |-> "absent"]]

\* -------------------------------------------------------- configure service
\* Parameter values are texts or null ("None"); NAT is kept as a number.
NoService ==
    [params |-> [http_proxy |-> "None", ftp_proxy |-> "None", https_proxy |-> "None",
                 plugin_server |-> "None", NAT |-> 0, locale |-> "None"],
     last |-> [key |-> "none", value |-> "None", status |-> 0]]

\* ---------------------------------------------------------------- DHCP info
\* Texts are sequences of characters, byte strings sequences of byte values.
NoDhcp == [op |-> "none", raw_options |-> <<>>, status |-> 0, options |-> {}]

\* ----------------------------------------------------------- identification
\* The keys and values of the device-info records fed to the voting updater,
\* the devices and addresses the remove-outdated-IP updater sees.
InfoKeys == {"k1", "k2"}

InfoValues == {"v1", "v2"}

SeenDevices == 1..NumSeenDevices

Ips == {"1.1.1.1", "1.1.1.2"}

NoRun == [device |-> None, ip |-> "none", dev_find |-> <<>>]

NoIdent ==
    [votes |-> [k \in InfoKeys |-> [v \in InfoValues |-> 0]],
     dev_info |-> [k \in InfoKeys |-> "unset"],
     fed |-> <<>>,
     nat |-> 0,
     ips |-> [d \in SeenDevices |-> "none"],
     run |-> NoRun]

\* ------------------------------------------------------ sequential downloads
\* Nothing was asked for: no top handle yet.
NoMultiseq ==
    [remote_files |-> <<>>, state |-> "none", deferred |-> "none",
     cur_file_idx |-> 0 - 1, sub_oips |-> <<>>, dl |-> "none"]

\* ------------------------------------------------------ raw config validation
NoChecked == [raw |-> EmptyRaw, configured |-> FALSE, calls |-> <<>>]

\* ------------------------------------------------------------ request helper
\* No device was retrieved for the request (None).
NoRetrieved ==
    [id |-> 0, configured |-> FALSE, vendor |-> 0, remote_state_sip_username |-> 0]

NoHelper == [device |-> NoRetrieved, updated |-> NoRetrieved, updater_calls |-> 0,
             dev_update_calls |-> <<>>, returned |-> TRUE]

\* ------------------------------------------------------------------- Init
Init ==
    /\ devs = [d \in {} |-> 0]
    /\ cfgs = [c \in {} |-> 0]
    /\ installed = {}
    /\ loaded = {}
    /\ op = Idle
    /\ log = <<>>
    /\ rw_lock = DeferredRWLock
    /\ tasks = [t \in TaskIds |-> NoTask]
    /\ oips = NoOips
    /\ tenants = NoTenants
    /\ service = NoService
    /\ dhcp = NoDhcp
    /\ ident = NoIdent
    /\ multi = NoMultiseq
    /\ checked = NoChecked
    /\ helper = NoHelper

\* ------------------------------------------------------ operation outcomes
\* What an operation leaves behind: the two collections, the plugin manager's
\* sets, the result delivered to the caller and the calls it made.
Outcome(D, C, I, L, res, calls) ==
    [devs |-> D, cfgs |-> C, installed |-> I, loaded |-> L, res |-> res, log |-> calls]

\* The operation raised before changing anything.
Raised(res) == Outcome(devs, cfgs, installed, loaded, res, <<>>)

\* In the operations below, F is the set of devices for which plugin.configure
\* raises when called, G the set of those for which plugin.deconfigure raises.

\* --------------------------------------------------------------- dev_insert
\* Mutant: the configured value of the input is kept.
InsertedConfigured_from_input(device) == device.configured

\* The flag a new device is persisted with, whatever the input says.
InsertedConfigured(device) == FALSE

dev_insert(id, device, F, G) ==
    IF id \in DOMAIN devs THEN Raised("InvalidIdError")
    ELSE LET dev0 == [device EXCEPT !.configured = InsertedConfigured(device)]
             r == _dev_configure_if_possible(loaded, cfgs, id, dev0, id \in F)
         IN  Outcome((id :> (IF r.configured
                             THEN [dev0 EXCEPT !.configured = TRUE]
                             ELSE dev0)) @@ devs,
                     cfgs, installed, loaded, "ok",
                     << <<"dev.insert", id, dev0.configured>> >> \o r.calls
                        \o (IF r.configured THEN << <<"dev.update", id, TRUE>> >>
                            ELSE <<>>))

\* --------------------------------------------------------------- dev_update
\* The transient-config check made when a device stops referencing config
\* cfg_id: D is the device collection after the write.  The delete is not
\* waited for: a refusal by the collection is lost.
\* Mutant: the transient config is deleted without looking for other users.
delete_unused_transient_unchecked(C, D, cfg_id) ==
    IF cfg_id \in DOMAIN C /\ C[cfg_id].transient
    THEN [cfgs |-> IF cfg_collection_delete(C, cfg_id) = "ok"
                   THEN Remove(C, cfg_id) ELSE C,
          calls |-> << <<"cfg.delete", cfg_id, cfg_collection_delete(C, cfg_id) # "ok">> >>]
    ELSE [cfgs |-> C, calls |-> <<>>]

delete_unused_transient(C, D, cfg_id) ==
    IF /\ cfg_id \in DOMAIN C
       /\ C[cfg_id].transient
       /\ ~\E d \in DOMAIN D : D[d].config = cfg_id
    THEN [cfgs |-> IF cfg_collection_delete(C, cfg_id) = "ok"
                   THEN Remove(C, cfg_id) ELSE C,
          calls |-> << <<"cfg.delete", cfg_id, cfg_collection_delete(C, cfg_id) # "ok">> >>]
    ELSE [cfgs |-> C, calls |-> <<>>]

\* Mutant: the device is written back whether it changed or not.
device_changed_always(new_device, old_device) == TRUE

\* The test that guards the write of dev_update.
device_changed(new_device, old_device) == new_device # old_device

dev_update(id, device, F, G) ==
    IF id \notin DOMAIN devs THEN Raised("InvalidIdError")
    ELSE LET old_device == devs[id]
             reconf == needs_reconfiguration(old_device, device)
             dec == IF old_device.configured
                    THEN _dev_deconfigure_if_possible(loaded, id, old_device, id \in G)
                    ELSE <<>>
             r == _dev_configure_if_possible(loaded, cfgs, id, device, id \in F)
             new_device == [device EXCEPT !.configured =
                               IF reconf THEN r.configured ELSE old_device.configured]
             D2 == [devs EXCEPT ![id] = new_device]
             gc == IF old_device.config # None /\ old_device.config # new_device.config
                   THEN delete_unused_transient(cfgs, D2, old_device.config)
                   ELSE [cfgs |-> cfgs, calls |-> <<>>]
             plugin_calls == IF reconf THEN dec \o r.calls ELSE <<>>
         IN  IF device_changed(new_device, old_device)
             THEN Outcome(D2, gc.cfgs, installed, loaded, "ok",
                          plugin_calls
                             \o << <<"dev.update", id, new_device.configured>> >>
                             \o gc.calls)
             ELSE Outcome(devs, cfgs, installed, loaded, "ok", plugin_calls)

\* --------------------------------------------------------------- dev_delete
dev_delete(id, F, G) ==
    IF id \notin DOMAIN devs THEN Raised("InvalidIdError")
    ELSE LET device == devs[id]
             D2 == Remove(devs, id)
             gc == IF device.config # None
                   THEN delete_unused_transient(cfgs, D2, device.config)
                   ELSE [cfgs |-> cfgs, calls |-> <<>>]
             dec == IF device.configured
                    THEN _dev_deconfigure_if_possible(loaded, id, device, id \in G)
                    ELSE <<>>
         IN  Outcome(D2, gc.cfgs, installed, loaded, "ok",
                     << <<"dev.delete", id, FALSE>> >> \o gc.calls \o dec)

\* ---------------------------------------------------------- dev_reconfigure
dev_reconfigure(id, F, G) ==
    IF id \notin DOMAIN devs THEN Raised("InvalidIdError")
    ELSE LET device == devs[id]
             dec == IF device.configured
                    THEN _dev_deconfigure_if_possible(loaded, id, device, id \in G)
                    ELSE <<>>
             r == _dev_configure_if_possible(loaded, cfgs, id, device, id \in F)
         IN  IF device.configured # r.configured
             THEN Outcome([devs EXCEPT ![id].configured = r.configured],
                          cfgs, installed, loaded, "ok",
                          dec \o r.calls \o << <<"dev.update", id, r.configured>> >>)
             ELSE Outcome(devs, cfgs, installed, loaded, "ok", dec \o r.calls)

\* ---------------------------------------------------------- dev_synchronize
\* `raises`: the plugin's synchronize fails (unreachable phone, no mechanism).
_dev_synchronize_if_possible(L, C, id, device, raises) ==
    LET plugin == _dev_get_plugin(L, device)
        rc == _dev_get_raw_config(C, device)
    IN  IF plugin = None \/ ~rc.found
        THEN [res |-> "PluginNotLoaded", calls |-> <<>>]
        ELSE [res |-> IF raises THEN "SyncError" ELSE "ok",
              calls |-> << <<"synchronize", id, raises>> >>]

\* Mutant: the configured flag is not looked at.
dev_synchronize_unchecked(id, raises) ==
    IF id \notin DOMAIN devs THEN Raised("InvalidIdError")
    ELSE LET r == _dev_synchronize_if_possible(loaded, cfgs, id, devs[id], raises)
         IN  Outcome(devs, cfgs, installed, loaded, r.res, r.calls)

dev_synchronize(id, raises) ==
    IF id \notin DOMAIN devs THEN Raised("InvalidIdError")
    ELSE IF ~devs[id].configured THEN Raised("NotConfigured")
    ELSE LET r == _dev_synchronize_if_possible(loaded, cfgs, id, devs[id], raises)
         IN  Outcome(devs, cfgs, installed, loaded, r.res, r.calls)

\* ---------------------------------------------------------------- cascades
\* A loop over devices: R[d] is the outcome of the loop body for device d,
\* [dev, calls, err].  The bodies run in the order of ids and the loop stops at
\* the first body that fails (err).
FirstErr(ids, R) ==
    IF \E i \in DOMAIN ids : R[ids[i]].err
    THEN CHOOSE i \in DOMAIN ids :
            R[ids[i]].err /\ \A j \in 1..(i - 1) : ~R[ids[j]].err
    ELSE Len(ids)

ForDevices(D, ids, R) ==
    LET k == FirstErr(ids, R)
        done == {ids[i] : i \in 1..k}
    IN  [devs |-> [d \in DOMAIN D |-> IF d \in done THEN R[d].dev ELSE D[d]],
         calls |-> Concat([i \in 1..k |-> R[ids[i]].calls]),
         err |-> \E i \in DOMAIN ids : R[ids[i]].err]

\* Mutant: the matching documents are iterated from the highest id down.
find_descending(D, selector) ==
    LET ids == SortedSeq({x \in DOMAIN D : selector[x]})
    IN  [i \in DOMAIN ids |-> ids[Len(ids) + 1 - i]]

\* collection.find(selector): the ids of the documents the selector matches
\* (selector[x] for the document of id x), in the order they are iterated
find(D, selector) == SortedSeq({x \in DOMAIN D : selector[x]})

\* Body of the loop of cfg_insert and cfg_update for one affected device.
configure_affected_device(L, C, d, device, craises, draises) ==
    LET plugin == _dev_get_plugin(L, device)
        rc == get_raw_config(C, device.config, base_raw_config)
        r == _dev_configure(d, rc.raw, craises)
        dec == IF device.configured THEN _dev_deconfigure(d, draises) ELSE <<>>
    IN  IF plugin = None THEN [dev |-> device, calls |-> <<>>, err |-> FALSE]
        ELSE IF ~rc.found THEN [dev |-> device, calls |-> <<>>, err |-> TRUE]
        ELSE IF device.configured # r.configured
        THEN [dev |-> [device EXCEPT !.configured = r.configured],
              calls |-> dec \o r.calls \o << <<"dev.update", d, r.configured>> >>,
              err |-> FALSE]
        ELSE [dev |-> device, calls |-> dec \o r.calls, err |-> FALSE]

\* Mutant: the cascade goes over every stored device.
configure_all_devices(L, C, D, id, F, G) ==
    LET affected_devices == find(D, [x \in DOMAIN D |-> TRUE])
    IN  ForDevices(D, affected_devices,
            [d \in Range(affected_devices) |->
                configure_affected_device(L, C, d, D[d], d \in F, d \in G)])

\* Steps 1 to 3 of cfg_insert and cfg_update, on the collection C as written.
configure_affected_devices(L, C, D, id, F, G) ==
    LET affected_cfg_ids == get_descendants(C, id) \cup {id}
        InAffected(device) == device.config \in affected_cfg_ids
        affected_devices == find(D, [x \in DOMAIN D |-> InAffected(D[x])])
    IN  ForDevices(D, affected_devices,
            [d \in Range(affected_devices) |->
                configure_affected_device(L, C, d, D[d], d \in F, d \in G)])

\* --------------------------------------------------------------- cfg_insert
\* collection.insert refuses a known id, and a config closing a parent cycle
cfg_collection_insert(C, id, config) ==
    IF id \in DOMAIN C THEN "InvalidIdError"
    ELSE IF ClosesCycle(C, id, config.parent_ids) THEN "ValueError"
    ELSE "ok"

cfg_insert(id, config, F, G) ==
    LET res == cfg_collection_insert(cfgs, id, config)
        C2 == (id :> config) @@ cfgs
        r == configure_affected_devices(loaded, C2, devs, id, F, G)
    IN  IF res # "ok" THEN Raised(res)
        ELSE Outcome(r.devs, C2, installed, loaded,
                     IF r.err THEN "AssertionError" ELSE "ok",
                     << <<"cfg.insert", id, FALSE>> >> \o r.calls)

\* --------------------------------------------------------------- cfg_update
\* Mutant: the update is committed without walking parent_ids.
cfg_collection_update_unchecked(C, id, config) == "ok"

\* collection.update refuses a config closing a parent cycle
cfg_collection_update(C, id, config) ==
    IF ClosesCycle(C, id, config.parent_ids) THEN "ValueError" ELSE "ok"

cfg_update(id, config, F, G) ==
    LET res == IF id \notin DOMAIN cfgs THEN "InvalidIdError"
               ELSE IF cfgs[id] = config THEN "unchanged"
               ELSE cfg_collection_update(cfgs, id, config)
        C2 == [cfgs EXCEPT ![id] = config]
        r == configure_affected_devices(loaded, C2, devs, id, F, G)
    IN  IF res # "ok" THEN Raised(res)
        ELSE Outcome(r.devs, C2, installed, loaded,
                     IF r.err THEN "AssertionError" ELSE "ok",
                     << <<"cfg.update", id, FALSE>> >> \o r.calls)

\* --------------------------------------------------------------- cfg_delete
\* Body of the loop of cfg_delete for one affected device.  In the branch of
\* a device on a descendant config, the device is written back as it was
\* read: its configured field is not assigned.
deconfigure_affected_device(L, C, id, d, device, craises, draises) ==
    LET plugin == _dev_get_plugin(L, device)
        rc == get_raw_config(C, device.config, base_raw_config)
        r == _dev_configure(d, rc.raw, craises)
        dec == IF device.configured THEN _dev_deconfigure(d, draises) ELSE <<>>
    IN  IF plugin = None THEN [dev |-> device, calls |-> <<>>, err |-> FALSE]
        ELSE IF device.config = id
        THEN IF rc.found THEN [dev |-> device, calls |-> dec, err |-> TRUE]
             ELSE IF device.configured
             THEN [dev |-> [device EXCEPT !.configured = FALSE],
                   calls |-> dec \o << <<"dev.update", d, FALSE>> >>,
                   err |-> FALSE]
             ELSE [dev |-> device, calls |-> dec, err |-> FALSE]
        ELSE IF ~rc.found THEN [dev |-> device, calls |-> dec, err |-> TRUE]
             ELSE IF device.configured # r.configured
             THEN [dev |-> device,
                   calls |-> dec \o r.calls
                             \o << <<"dev.update", d, device.configured>> >>,
                   err |-> FALSE]
             ELSE [dev |-> device, calls |-> dec \o r.calls, err |-> FALSE]

cfg_delete(id, F, G) ==
    LET res == cfg_collection_delete(cfgs, id)
        C2 == Remove(cfgs, id)
        affected_cfg_ids == get_descendants(C2, id) \cup {id}
        InAffected(device) == device.config \in affected_cfg_ids
        affected_devices == find(devs, [x \in DOMAIN devs |-> InAffected(devs[x])])
        r == ForDevices(devs, affected_devices,
                [d \in Range(affected_devices) |->
                    deconfigure_affected_device(loaded, C2, id, d, devs[d],
                                                d \in F, d \in G)])
    IN  IF res # "ok" THEN Raised(res)
        ELSE Outcome(r.devs, C2, installed, loaded,
                     IF r.err THEN "AssertionError" ELSE "ok",
                     << <<"cfg.delete", id, FALSE>> >> \o r.calls)

\* The HTTP status of DELETE /cfg_mgr/configs/<id>, from the result of
\* cfg_delete, when the non-deletable error is answered like any other error.
render_DELETE_without_forbidden(res) ==
    IF res = "ok" THEN 204
    ELSE IF res = "InvalidIdError" THEN 404
    ELSE 500

\* ConfigResource.render_DELETE: the HTTP status answered for the result of
\* cfg_delete.
render_DELETE(res) ==
    IF res = "ok" THEN 204
    ELSE IF res = "InvalidIdError" THEN 404
    ELSE IF res = "NonDeletableError" THEN 403
    ELSE 500

\* ------------------------------------------------------------ plugin load
\* Outcomes of _pg_load: pg_mgr.load raises (the plugin stays unloaded), or it
\* loads the plugin and configure_common raises, or both succeed.
LoadOutcomes == {"ok", "load_fails", "configure_common_fails"}

_pg_load(L, id, outcome) == IF outcome = "load_fails" THEN L ELSE L \cup {id}

_pg_unload(L, id) == L \ {id}

\* Body of the loop of _pg_configure_all_devices for one device.
configure_plugin_device(L, C, d, device, craises, draises) ==
    LET dec == IF device.configured
               THEN _dev_deconfigure_if_possible(L, d, device, draises)
               ELSE <<>>
        r == _dev_configure_if_possible(L, C, d, device, craises)
    IN  IF device.configured # r.configured
        THEN [dev |-> [device EXCEPT !.configured = r.configured],
              calls |-> dec \o r.calls \o << <<"dev.update", d, r.configured>> >>,
              err |-> FALSE]
        ELSE [dev |-> device, calls |-> dec \o r.calls, err |-> FALSE]

_pg_configure_all_devices(L, C, D, plugin_id, F, G) ==
    LET HasPlugin(device) == device.plugin = plugin_id
        devices == find(D, [x \in DOMAIN D |-> HasPlugin(D[x])])
    IN  ForDevices(D, devices,
            [d \in Range(devices) |->
                configure_plugin_device(L, C, d, D[d], d \in F, d \in G)])

\* --------------------------------------------------------------- pg_install
\* The download and extraction run outside the lock; the plugin is installed
\* when they succeed (downloaded); the load and the reconfiguration of the
\* devices (callback2) then run under the write lock.
pg_install(id, downloaded, outcome, F, G) ==
    LET L2 == _pg_load(loaded, id, outcome)
        r == _pg_configure_all_devices(L2, cfgs, devs, id, F, G)
    IN  IF id \in installed THEN Raised("AlreadyInstalled")
        ELSE IF ~downloaded THEN Raised("InstallError")
        ELSE IF outcome # "ok"
        THEN Outcome(devs, cfgs, installed \cup {id}, L2, "LoadError", <<>>)
        ELSE Outcome(r.devs, cfgs, installed \cup {id}, L2, "ok", r.calls)

\* --------------------------------------------------------------- pg_upgrade
\* callback2 of pg_upgrade: when the load fails the devices are left as
\* they are.
pg_upgrade(id, downloaded, outcome, F, G) ==
    LET L1 == IF id \in loaded THEN _pg_unload(loaded, id) ELSE loaded
        L2 == _pg_load(L1, id, outcome)
        r == _pg_configure_all_devices(L2, cfgs, devs, id, F, G)
    IN  IF id \notin installed THEN Raised("NotInstalled")
        ELSE IF ~downloaded THEN Raised("InstallError")
        ELSE IF outcome # "ok"
        THEN Outcome(devs, cfgs, installed, L2, "LoadError", <<>>)
        ELSE Outcome(r.devs, cfgs, installed, L2, "ok", r.calls)

\* ------------------------------------------------------------- pg_uninstall
\* Mutant: the plugin's deconfigure is called before the flag is cleared.
soft_deconfigure_device_calling_plugin(d, device) ==
    [dev |-> [device EXCEPT !.configured = FALSE],
     calls |-> _dev_deconfigure(d, FALSE) \o << <<"dev.update", d, FALSE>> >>,
     err |-> FALSE]

\* Body of the loop of pg_uninstall for one device.
soft_deconfigure_device(d, device) ==
    [dev |-> [device EXCEPT !.configured = FALSE],
     calls |-> << <<"dev.update", d, FALSE>> >>,
     err |-> FALSE]

pg_uninstall(id) ==
    LET Affected(device) == device.plugin = id /\ device.configured
        affected_devices == find(devs, [x \in DOMAIN devs |-> Affected(devs[x])])
        r == ForDevices(devs, affected_devices,
                [d \in Range(affected_devices) |-> soft_deconfigure_device(d, devs[d])])
    IN  IF id \notin installed THEN Raised("NotInstalled")
        ELSE Outcome(r.devs, cfgs, installed \ {id}, _pg_unload(loaded, id),
                     "ok", r.calls)

\* ---------------------------------------------------------------- pg_reload
\* Bodies of the three loops of pg_reload for one device.
reload_deconfigure_device(d, device, draises) ==
    [dev |-> device,
     calls |-> IF device.configured THEN _dev_deconfigure(d, draises) ELSE <<>>,
     err |-> FALSE]

\* Mutant: a failed load leaves the devices as they are.
reload_unconfigure_device_keeping(d, device) ==
    [dev |-> device, calls |-> <<>>, err |-> FALSE]

reload_unconfigure_device(d, device) ==
    IF device.configured
    THEN [dev |-> [device EXCEPT !.configured = FALSE],
          calls |-> << <<"dev.update", d, FALSE>> >>, err |-> FALSE]
    ELSE [dev |-> device, calls |-> <<>>, err |-> FALSE]

reload_configure_device(L, C, d, device, craises) ==
    LET r == _dev_configure_if_possible(L, C, d, device, craises)
    IN  IF device.configured # r.configured
        THEN [dev |-> [device EXCEPT !.configured = r.configured],
              calls |-> r.calls \o << <<"dev.update", d, r.configured>> >>,
              err |-> FALSE]
        ELSE [dev |-> device, calls |-> r.calls, err |-> FALSE]

pg_reload(id, outcome, F, G) ==
    LET HasPlugin(device) == device.plugin = id
        devices == find(devs, [x \in DOMAIN devs |-> HasPlugin(devs[x])])
        dec == IF id \in loaded
               THEN ForDevices(devs, devices,
                       [d \in Range(devices) |->
                           reload_deconfigure_device(d, devs[d], d \in G)]).calls
               ELSE <<>>
        L1 == IF id \in loaded THEN _pg_unload(loaded, id) ELSE loaded
        L2 == _pg_load(L1, id, outcome)
        r == IF outcome # "ok"
             THEN ForDevices(devs, devices,
                     [d \in Range(devices) |-> reload_unconfigure_device(d, devs[d])])
             ELSE ForDevices(devs, devices,
                     [d \in Range(devices) |->
                         reload_configure_device(L2, cfgs, d, devs[d], d \in F)])
    IN  IF id \notin installed THEN Raised("NotInstalled")
        ELSE Outcome(r.devs, cfgs, installed, L2,
                     IF outcome # "ok" THEN "LoadError" ELSE "ok",
                     dec \o r.calls)

\* ------------------------------------------------------------------ actions
\* The devices on which a sequence of calls has a plugin call of this kind.
CallsOf(kind, calls) == {e[2] : e \in {x \in Range(calls) : x[1] = kind}}

\* An operation runs from start to end under the lock: the state moves to its
\* outcome in one step, and `op` and `log` record what it was and did.
Do(name, id, doc, r) ==
    /\ devs' = r.devs
    /\ cfgs' = r.cfgs
    /\ installed' = r.installed
    /\ loaded' = r.loaded
    /\ op' = [name |-> name, id |-> id, doc |-> doc, res |-> r.res]
    /\ log' = r.log
    /\ UNCHANGED not_engine_vars

\* The operation's deferred has fired and its result has been delivered.
Return ==
    /\ op # Idle
    /\ op' = Idle
    /\ log' = <<>>
    /\ UNCHANGED <<devs, cfgs, installed, loaded>>
    /\ UNCHANGED not_engine_vars

\* ------------------------------------------------------------------ inputs
RawChoices == {EmptyRaw, "ntp_enabled" :> 1, "ntp_ip" :> 1}

\* Config documents for the cascades: any parents, any of the raw configs.
ConfigDocs == [parent_ids : SeqsUpTo(CfgIds, MaxParents),
               raw_config : RawChoices,
               transient : {FALSE},
               deletable : {TRUE}]

\* Config documents for the transient and deletable flags: no parents, an
\* empty raw config.
FlaggedConfigDocs == [parent_ids : {<<>>},
                      raw_config : {EmptyRaw},
                      transient : BOOLEAN,
                      deletable : BOOLEAN]

DeviceDocs == [plugin : PluginIds \cup {None},
               config : CfgIds \cup {None},
               configured : BOOLEAN]

\* Whether each plugin.configure / deconfigure call of an operation raises is
\* an input of the operation.
Raising(kind, calls) == SUBSET CallsOf(kind, calls)

DevInsert ==
    /\ op = Idle
    /\ \E id \in DevIds, device \in DeviceDocs :
       LET calls == dev_insert(id, device, {}, {}).log
       IN  \E F \in Raising("configure", calls), G \in Raising("deconfigure", calls) :
              Do("dev_insert", id, device, dev_insert(id, device, F, G))

DevUpdate ==
    /\ op = Idle
    /\ \E id \in DevIds, device \in DeviceDocs :
       LET calls == dev_update(id, device, {}, {}).log
       IN  \E F \in Raising("configure", calls), G \in Raising("deconfigure", calls) :
              Do("dev_update", id, device, dev_update(id, device, F, G))

DevDelete ==
    /\ op = Idle
    /\ \E id \in DevIds :
       LET calls == dev_delete(id, {}, {}).log
       IN  \E F \in Raising("configure", calls), G \in Raising("deconfigure", calls) :
              Do("dev_delete", id, NoDoc, dev_delete(id, F, G))

DevReconfigure ==
    /\ op = Idle
    /\ \E id \in DevIds :
       LET calls == dev_reconfigure(id, {}, {}).log
       IN  \E F \in Raising("configure", calls), G \in Raising("deconfigure", calls) :
              Do("dev_reconfigure", id, NoDoc, dev_reconfigure(id, F, G))

DevSynchronize ==
    /\ op = Idle
    /\ \E id \in DevIds, raises \in BOOLEAN :
       Do("dev_synchronize", id, NoDoc, dev_synchronize(id, raises))

CfgInsert(Docs) ==
    /\ op = Idle
    /\ \E id \in CfgIds, config \in Docs :
       LET calls == cfg_insert(id, config, {}, {}).log
       IN  \E F \in Raising("configure", calls), G \in Raising("deconfigure", calls) :
              Do("cfg_insert", id, NoDoc, cfg_insert(id, config, F, G))

CfgUpdate(Docs) ==
    /\ op = Idle
    /\ \E id \in CfgIds, config \in Docs :
       LET calls == cfg_update(id, config, {}, {}).log
       IN  \E F \in Raising("configure", calls), G \in Raising("deconfigure", calls) :
              Do("cfg_update", id, NoDoc, cfg_update(id, config, F, G))

CfgDelete ==
    /\ op = Idle
    /\ \E id \in CfgIds :
       LET calls == cfg_delete(id, {}, {}).log
       IN  \E F \in Raising("configure", calls), G \in Raising("deconfigure", calls) :
              Do("cfg_delete", id, NoDoc, cfg_delete(id, F, G))

PgInstall ==
    /\ op = Idle
    /\ \E id \in PluginIds, downloaded \in BOOLEAN, outcome \in LoadOutcomes :
       LET calls == pg_install(id, downloaded, outcome, {}, {}).log
       IN  \E F \in Raising("configure", calls), G \in Raising("deconfigure", calls) :
              Do("pg_install", id, NoDoc, pg_install(id, downloaded, outcome, F, G))

PgUpgrade ==
    /\ op = Idle
    /\ \E id \in PluginIds, downloaded \in BOOLEAN, outcome \in LoadOutcomes :
       LET calls == pg_upgrade(id, downloaded, outcome, {}, {}).log
       IN  \E F \in Raising("configure", calls), G \in Raising("deconfigure", calls) :
              Do("pg_upgrade", id, NoDoc, pg_upgrade(id, downloaded, outcome, F, G))

PgUninstall ==
    /\ op = Idle
    /\ \E id \in PluginIds : Do("pg_uninstall", id, NoDoc, pg_uninstall(id))

PgReload ==
    /\ op = Idle
    /\ \E id \in PluginIds, outcome \in LoadOutcomes :
       LET calls == pg_reload(id, outcome, {}, {}).log
       IN  \E F \in Raising("configure", calls), G \in Raising("deconfigure", calls) :
              Do("pg_reload", id, NoDoc, pg_reload(id, outcome, F, G))

Next ==
    \/ DevInsert
    \/ DevUpdate
    \/ DevDelete
    \/ DevReconfigure
    \/ DevSynchronize
    \/ CfgInsert(ConfigDocs)
    \/ CfgUpdate(ConfigDocs)
    \/ CfgDelete
    \/ PgInstall
    \/ PgUpgrade
    \/ PgUninstall
    \/ PgReload
    \/ Return

Spec == Init /\ [][Next]_vars

\* The same engine fed with the flagged config documents.
NextFlagged ==
    \/ DevInsert
    \/ DevUpdate
    \/ DevDelete
    \/ DevReconfigure
    \/ DevSynchronize
    \/ CfgInsert(FlaggedConfigDocs)
    \/ CfgUpdate(FlaggedConfigDocs)
    \/ CfgDelete
    \/ PgInstall
    \/ PgUpgrade
    \/ PgUninstall
    \/ PgReload
    \/ Return

SpecFlagged == Init /\ [][NextFlagged]_vars

\* ---------------------------------------------------- lock discipline
\* The engine operations decorated with @_wlock (and the callback2 of
\* pg_install and pg_upgrade, decorated with @_wlock_arg).
write_locked ==
    {"dev_insert", "dev_update", "dev_delete", "dev_reconfigure",
     "cfg_insert", "cfg_update", "cfg_delete", "cfg_create_new",
     "pg_install", "pg_upgrade", "pg_uninstall", "pg_reload"}

\* The engine operations decorated with @_rlock.
read_locked == {"dev_synchronize"}

\* The engine operations that carry no lock decorator.
not_locked ==
    {"dev_retrieve", "dev_find", "dev_find_one",
     "cfg_retrieve", "cfg_retrieve_raw_config", "cfg_find"}

OperationNames == write_locked \cup read_locked \cup not_locked

\* Mutant: cfg_update misses its @_wlock decorator.
lock_of_with_cfg_update_unlocked(name) ==
    IF name \in write_locked \ {"cfg_update"} THEN "write"
    ELSE IF name \in read_locked THEN "read"
    ELSE "none"

\* The lock an operation runs under.
lock_of(name) ==
    IF name \in write_locked THEN "write"
    ELSE IF name \in read_locked THEN "read"
    ELSE "none"

\* Mutant: a reader is admitted whenever no writer is running.
read_admitted_before_waiting_writers(l) == ~l.writing

\* Mutant: a reader is admitted only when the lock is free.
read_admitted_when_free(l) ==
    ~l.writing /\ l.reading = 0 /\ l.waiting_writers = <<>>

\* read_lock.run starts the function at once iff no writer runs or waits.
read_admitted(l) == ~l.writing /\ l.waiting_writers = <<>>

\* Mutant: a writer is admitted whenever no writer is running.
write_admitted_among_readers(l) == ~l.writing

\* write_lock.run starts the function at once iff the lock is free.
write_admitted(l) == ~l.writing /\ l.reading = 0

\* read_lock.run(fun) for task t: the lock afterwards, and the tasks started.
read_lock_run(l, t) ==
    IF read_admitted(l)
    THEN [lock |-> [l EXCEPT !.reading = @ + 1], started |-> {t}]
    ELSE [lock |-> [l EXCEPT !.waiting_readers = Append(@, t)], started |-> {}]

write_lock_run(l, t) ==
    IF write_admitted(l)
    THEN [lock |-> [l EXCEPT !.writing = TRUE], started |-> {t}]
    ELSE [lock |-> [l EXCEPT !.waiting_writers = Append(@, t)], started |-> {}]

\* The lock is free: the first waiting writer is started alone, or else all
\* the waiting readers together.
schedule(l) ==
    IF l.waiting_writers # <<>>
    THEN [lock |-> [l EXCEPT !.writing = TRUE,
                             !.waiting_writers = Tail(@)],
          started |-> {Head(l.waiting_writers)}]
    ELSE [lock |-> [l EXCEPT !.reading = Len(l.waiting_readers),
                             !.waiting_readers = <<>>],
          started |-> Range(l.waiting_readers)]

\* Mutant: the waiting readers are started before a waiting writer.
write_lock_release_readers_first(l) ==
    IF l.waiting_readers # <<>>
    THEN [lock |-> [l EXCEPT !.writing = FALSE,
                             !.reading = Len(l.waiting_readers),
                             !.waiting_readers = <<>>],
          started |-> Range(l.waiting_readers)]
    ELSE schedule([l EXCEPT !.writing = FALSE])

\* The deferred of the function run under the write lock has fired.
write_lock_release(l) == schedule([l EXCEPT !.writing = FALSE])

\* The deferred of a function run under the read lock has fired.
read_lock_release(l) ==
    LET l1 == [l EXCEPT !.reading = @ - 1]
    IN  IF l1.reading = 0 THEN schedule(l1) ELSE [lock |-> l1, started |-> {}]

InProgress(t) == tasks[t].state \in {"running", "suspended"}

\* Task t calls engine operation name: the decorator hands the function to
\* the lock, which starts it now or queues it; an operation with no decorator
\* starts now.  Tasks make their calls in the order of their ids.
Call(t, name) ==
    /\ tasks[t].state = "new"
    /\ \A u \in 1..(t - 1) : tasks[u].state # "new"
    /\ LET r == IF lock_of(name) = "read" THEN read_lock_run(rw_lock, t)
                ELSE IF lock_of(name) = "write" THEN write_lock_run(rw_lock, t)
                ELSE [lock |-> rw_lock, started |-> {t}]
       IN  /\ rw_lock' = r.lock
           /\ tasks' = [tasks EXCEPT ![t] =
                           [name |-> name,
                            state |-> IF t \in r.started THEN "running"
                                      ELSE "waiting",
                            failed |-> FALSE]]
    /\ UNCHANGED not_lock_vars

\* A running operation waits on a deferred (a suspension point).
Suspend(t) ==
    /\ tasks[t].state = "running"
    /\ tasks' = [tasks EXCEPT ![t].state = "suspended"]
    /\ UNCHANGED <<rw_lock, not_lock_vars>>

\* The deferred it waited on fires.
Resume(t) ==
    /\ tasks[t].state = "suspended"
    /\ tasks' = [tasks EXCEPT ![t].state = "running"]
    /\ UNCHANGED <<rw_lock, not_lock_vars>>

\* Mutant: the release is a callback of the function's deferred, skipped when
\* the deferred fires with a failure.
release_fires_on_result_only(failed) == ~failed

\* The release is added to the function's deferred for both outcomes: it runs
\* when the deferred fires with a result and when it fires with a failure.
release_fires(failed) == TRUE

\* The operation ends: its deferred fires, with a result or with a failure;
\* the lock is released and hands over to the requests it starts.
Fire(t, failed) ==
    /\ tasks[t].state = "running"
    /\ LET r == IF ~release_fires(failed) THEN [lock |-> rw_lock, started |-> {}]
                ELSE IF lock_of(tasks[t].name) = "read" THEN read_lock_release(rw_lock)
                ELSE IF lock_of(tasks[t].name) = "write" THEN write_lock_release(rw_lock)
                ELSE [lock |-> rw_lock, started |-> {}]
       IN  /\ rw_lock' = r.lock
           /\ tasks' = [u \in TaskIds |->
                           IF u = t THEN [tasks[u] EXCEPT !.state = "done",
                                                          !.failed = failed]
                           ELSE IF u \in r.started
                           THEN [tasks[u] EXCEPT !.state = "running"]
                           ELSE tasks[u]]
    /\ UNCHANGED not_lock_vars

NextLock ==
    \/ \E t \in TaskIds, name \in OperationNames : Call(t, name)
    \/ \E t \in TaskIds : Suspend(t)
    \/ \E t \in TaskIds : Resume(t)
    \/ \E t \in TaskIds, failed \in BOOLEAN : Fire(t, failed)

SpecLock == Init /\ [][NextLock]_vars

\* ------------------------------------------------- installs and downloads
\* An install or an upgrade is a download driven by the download hook, then
\* the unpacking by the plugin manager, then the callbacks pg_install and
\* pg_upgrade chain on the manager's completion signal.  `phase` is the
\* position of that chain: "download" while the hook receives data,
\* "downloaded" between the hook's complete() and the completion signal,
\* "loading" between callback1 and the end of callback2, then "done".
hook_init(oip) == [oip EXCEPT !.current = 0]

hook_start(oip) == [oip EXCEPT !.state = OIP_PROGRESS]

hook_update(oip, len) == [oip EXCEPT !.current = @ + len]

hook_complete(oip) == [oip EXCEPT !.state = OIP_SUCCESS]

hook_fail(oip) == [oip EXCEPT !.state = OIP_FAIL]

\* The handle of a new download: end is the declared size of the remote
\* file, the hook is created and started on it.
async_download_with_oip(id, kind, size) ==
    hook_start(hook_init([id |-> id, kind |-> kind, state |-> OIP_PROGRESS,
                          current |-> 0, end |-> size, phase |-> "download"]))

\* The manager holds a live in-progress handle for the package.
pg_mgr_in_progress(o, id) ==
    \E i \in DOMAIN o.list : o.list[i].id = id /\ o.list[i].state = OIP_PROGRESS

\* pg_mgr.install / pg_mgr.upgrade: refuse a duplicate, else start a download.
pg_mgr_start(o, name, id, kind, size) ==
    IF pg_mgr_in_progress(o, id)
    THEN [o EXCEPT !.call = [name |-> name, id |-> id, res |-> "InProgress"]]
    ELSE [o EXCEPT !.call = [name |-> name, id |-> id, res |-> "ok"],
                   !.list = Append(@, async_download_with_oip(id, kind, size))]

is_installed_never(o, id) == FALSE

is_installed(o, id) == id \in o.installed

oip_pg_install(o, id, size) ==
    IF is_installed(o, id)
    THEN [o EXCEPT !.call = [name |-> "pg_install", id |-> id, res |-> "AlreadyInstalled"]]
    ELSE pg_mgr_start(o, "pg_install", id, "install", size)

oip_pg_upgrade(o, id, size) ==
    IF ~is_installed(o, id)
    THEN [o EXCEPT !.call = [name |-> "pg_upgrade", id |-> id, res |-> "NotInstalled"]]
    ELSE pg_mgr_start(o, "pg_upgrade", id, "upgrade", size)

\* callback1 of pg_install and pg_upgrade: the manager's completion signal
\* fired, the package is unpacked.
callback1(oip) == [oip EXCEPT !.state = OIP_PROGRESS, !.phase = "loading"]

callback3(oip) == [oip EXCEPT !.state = OIP_SUCCESS, !.phase = "done"]

errback3(oip) == [oip EXCEPT !.state = OIP_FAIL, !.phase = "done"]

Sizes == 1..MaxSize
ChunkLens == 0..MaxChunk

OipInstall(id, size) ==
    /\ Len(oips.list) < MaxOips
    /\ oips' = oip_pg_install(oips, id, size)
    /\ UNCHANGED not_oip_vars

OipUpgrade(id, size) ==
    /\ Len(oips.list) < MaxOips
    /\ oips' = oip_pg_upgrade(oips, id, size)
    /\ UNCHANGED not_oip_vars

HookUpdate(i, len) ==
    /\ oips.list[i].phase = "download"
    /\ oips.list[i].current + len <= MaxCurrent
    /\ oips' = [oips EXCEPT !.list[i] = hook_update(@, len)]
    /\ UNCHANGED not_oip_vars

HookComplete(i) ==
    /\ oips.list[i].phase = "download"
    /\ oips' = [oips EXCEPT !.list[i] = [hook_complete(@) EXCEPT !.phase = "downloaded"]]
    /\ UNCHANGED not_oip_vars

\* The download fails: the hook marks the handle, the completion signal
\* fails and errback3 marks it again.
HookFail(i) ==
    /\ oips.list[i].phase = "download"
    /\ oips' = [oips EXCEPT !.list[i] = errback3(hook_fail(@))]
    /\ UNCHANGED not_oip_vars

Callback1(i) ==
    /\ oips.list[i].phase = "downloaded"
    /\ oips' = [oips EXCEPT !.list[i] = callback1(@),
                            !.installed = @ \cup {oips.list[i].id}]
    /\ UNCHANGED not_oip_vars

\* callback2 (load, configure the devices) returned.
Callback3(i) ==
    /\ oips.list[i].phase = "loading"
    /\ oips' = [oips EXCEPT !.list[i] = callback3(@)]
    /\ UNCHANGED not_oip_vars

\* The completion signal failed after the download (unpacking), or callback2
\* raised.
Errback3(i) ==
    /\ oips.list[i].phase \in {"downloaded", "loading"}
    /\ oips' = [oips EXCEPT !.list[i] = errback3(@)]
    /\ UNCHANGED not_oip_vars

NextOip ==
    \/ \E id \in PluginIds, size \in Sizes : OipInstall(id, size)
    \/ \E id \in PluginIds, size \in Sizes : OipUpgrade(id, size)
    \/ \E i \in DOMAIN oips.list, len \in ChunkLens : HookUpdate(i, len)
    \/ \E i \in DOMAIN oips.list : HookComplete(i)
    \/ \E i \in DOMAIN oips.list : HookFail(i)
    \/ \E i \in DOMAIN oips.list : Callback1(i)
    \/ \E i \in DOMAIN oips.list : Callback3(i)
    \/ \E i \in DOMAIN oips.list : Errback3(i)

SpecOip == Init /\ [][NextOip]_vars

\* ------------------------------------------------------ tenant of a device
\* `not device.get('tenant_uuid')`: the key is missing, None or empty.
tenant_missing(input) == input \in {"absent", "None", ""}

dev_insert_tenant_of_engine(engine, input) ==
    [tenant_uuid |-> engine, is_new |-> TRUE]

\* The tenant fields dev_insert stores for an input device.
dev_insert_tenant(engine, input) ==
    LET tenant_uuid == IF tenant_missing(input) THEN engine ELSE input
    IN  [tenant_uuid |-> tenant_uuid, is_new |-> (tenant_uuid = engine)]

TenantInputs == {"absent", "None", ""} \cup TenantUuids

\* set_token: the engine's tenant becomes the tenant of the token.
SetToken(t) ==
    /\ tenants' = [tenants EXCEPT !.engine = t]
    /\ UNCHANGED not_tenant_vars

TenantDevInsert(d, input) ==
    /\ tenants.devs[d] = NoTenantDoc
    /\ tenants' = [tenants EXCEPT !.devs[d] = dev_insert_tenant(tenants.engine, input),
                                  !.last = [id |-> d, input |-> input]]
    /\ UNCHANGED not_tenant_vars

NextTenant ==
    \/ \E t \in TenantUuids : SetToken(t)
    \/ \E d \in DevIds, input \in TenantInputs : TenantDevInsert(d, input)

SpecTenant == Init /\ [][NextTenant]_vars

\* -------------------------------------------------------- configure service
ParamValues ==
    {"None", "", "1", "2", "http://proxy:8080", "http://proxy/path",
     "proxy:8080", "fr_FR", "caf\\xe9"}

ParamKeys == {"http_proxy", "ftp_proxy", "https_proxy", "plugin_server", "NAT", "locale"}

\* urlparse.urlparse of the values above; "proxy:8080" has no scheme, its
\* text after the colon being a port number.
urlparse(value) ==
    CASE value = "http://proxy:8080" -> [scheme |-> "http", hostname |-> "proxy", path |-> ""]
      [] value = "http://proxy/path" -> [scheme |-> "http", hostname |-> "proxy", path |-> "/path"]
      [] OTHER -> [scheme |-> "", hostname |-> "", path |-> value]

_check_is_server_url(value) ==
    \/ value = "None"
    \/ urlparse(value).scheme # "" /\ urlparse(value).hostname # ""

_check_is_proxy(value) ==
    \/ value = "None"
    \/ /\ urlparse(value).scheme # ""
       /\ urlparse(value).hostname # ""
       /\ urlparse(value).path = ""

_check_is_https_proxy(value) ==
    \/ value = "None"
    \/ /\ value # ""
       /\ ~(urlparse(value).scheme # "" /\ urlparse(value).hostname # "")

\* `not value`
Falsy(value) == value \in {"None", ""}

_generic_set_proxy(params, key, value) ==
    [params EXCEPT ![key] = IF Falsy(value) THEN "None" ELSE value]

\* The localization service takes any ascii locale.
l10n_set_locale(value) == value # "caf\\xe9"

Set(params) == [params |-> params, raised |-> "none"]

InvalidParameterError(params) == [params |-> params, raised |-> "InvalidParameterError"]

_set_param_locale(params, value) ==
    IF Falsy(value) THEN Set([params EXCEPT !.locale = "None"])
    ELSE IF l10n_set_locale(value) THEN Set([params EXCEPT !.locale = value])
    ELSE InvalidParameterError(params)

_set_param_proxy(params, key, value) ==
    IF (IF key = "https_proxy" THEN _check_is_https_proxy(value) ELSE _check_is_proxy(value))
    THEN Set(_generic_set_proxy(params, key, value))
    ELSE InvalidParameterError(params)

_set_param_plugin_server(params, value) ==
    IF _check_is_server_url(value)
    THEN Set([params EXCEPT !.plugin_server = value])
    ELSE InvalidParameterError(params)

_set_param_NAT_unchecked(params, value) ==
    Set([params EXCEPT !.NAT = IF value = "1" THEN 1 ELSE 0])

_set_param_NAT(params, value) ==
    IF value \in {"None", "0"} THEN Set([params EXCEPT !.NAT = 0])
    ELSE IF value = "1" THEN Set([params EXCEPT !.NAT = 1])
    ELSE InvalidParameterError(params)

\* ApplicationConfigureService.set
service_set(params, name, value) ==
    CASE name \in {"http_proxy", "ftp_proxy", "https_proxy"} -> _set_param_proxy(params, name, value)
      [] name = "plugin_server" -> _set_param_plugin_server(params, value)
      [] name = "NAT" -> _set_param_NAT(params, value)
      [] name = "locale" -> _set_param_locale(params, value)
      [] OTHER -> [params |-> params, raised |-> "KeyError"]

\* ApplicationConfigureService.get
service_get(params, name) == params[name]

\* ConfigureParameterResource.render_PUT
render_PUT(raised) ==
    CASE raised = "InvalidParameterError" -> 400
      [] raised = "KeyError" -> 404
      [] OTHER -> 204

ParameterPut(key, value) ==
    LET r == service_set(service.params, key, value)
    IN  /\ service' = [params |-> r.params,
                       last |-> [key |-> key, value |-> value, status |-> render_PUT(r.raised)]]
        /\ UNCHANGED not_service_vars

NextService ==
    \E key \in ParamKeys \cup {"invalid_param"}, value \in ParamValues : ParameterPut(key, value)

SpecService == Init /\ [][NextService]_vars

\* ---------------------------------------------------------------- DHCP info
ValueError == -1

DigitValue(c) ==
    CASE c = "0" -> 0 [] c = "1" -> 1 [] c = "2" -> 2 [] c = "3" -> 3
      [] c = "4" -> 4 [] c = "5" -> 5 [] c = "6" -> 6 [] c = "7" -> 7
      [] c = "8" -> 8 [] c = "9" -> 9 [] c = "a" -> 10 [] c = "b" -> 11
      [] c = "c" -> 12 [] c = "d" -> 13 [] c = "e" -> 14 [] c = "f" -> 15
      [] OTHER -> 16

RECURSIVE digits_value(_, _, _)
digits_value(text, base, acc) ==
    IF text = <<>> THEN acc
    ELSE digits_value(Tail(text), base, acc * base + DigitValue(Head(text)))

\* int(text, base): the number, or ValueError for an empty text or a character
\* that is not a digit of the base.
int(text, base) ==
    IF text = <<>> \/ \E i \in DOMAIN text : DigitValue(text[i]) >= base
    THEN ValueError
    ELSE digits_value(text, base, 0)

\* text.split(sep): the pieces between the separators, empty pieces included.
RECURSIVE split(_, _)
split(text, sep) ==
    IF text = <<>> THEN << <<>> >>
    ELSE LET rest == split(Tail(text), sep)
         IN  IF Head(text) = sep
             THEN << <<>> >> \o rest
             ELSE << <<Head(text)>> \o rest[1] >> \o Tail(rest)

\* raw_option[3:]
option_value(raw_option) == SubSeq(raw_option, 4, Len(raw_option))

\* One turn of the loop of _transform_options: [code, value], or ValueError.
transform_option(raw_option) ==
    LET head == SubSeq(raw_option, 1, IF Len(raw_option) < 3 THEN Len(raw_option) ELSE 3)
        code == int(head, 10)
        tokens == split(option_value(raw_option), ".")
        bytes == [i \in DOMAIN tokens |-> int(tokens[i], 16)]
    IN  IF code = ValueError \/ \E i \in DOMAIN bytes : bytes[i] \notin 0..255
        THEN [raised |-> TRUE, code |-> 0, value |-> <<>>]
        ELSE [raised |-> FALSE, code |-> code, value |-> bytes]

\* The options as a set of <<code, value>> pairs, a later option replacing an
\* earlier one of the same code.
RECURSIVE _transform_options(_, _)
_transform_options(raw_options, options) ==
    IF raw_options = <<>> THEN [raised |-> FALSE, options |-> options]
    ELSE LET o == transform_option(Head(raw_options))
         IN  IF o.raised THEN [raised |-> TRUE, options |-> {}]
             ELSE _transform_options(Tail(raw_options),
                      {p \in options : p[1] # o.code} \cup {<<o.code, o.value>>})

\* DeviceDHCPInfoResource.render_POST
dhcp_render_POST(dhcp_op, raw_options) ==
    LET t == IF dhcp_op = "commit" THEN _transform_options(raw_options, {})
             ELSE [raised |-> FALSE, options |-> {}]
    IN  IF t.raised
        THEN [op |-> dhcp_op, raw_options |-> raw_options, status |-> 400, options |-> {}]
        ELSE IF dhcp_op \in {"commit", "expiry", "release"}
        THEN [op |-> dhcp_op, raw_options |-> raw_options, status |-> 204, options |-> t.options]
        ELSE [op |-> dhcp_op, raw_options |-> raw_options, status |-> 400, options |-> {}]

\* The raw options posted: a code, a dot or none, hex tokens joined by dots.
OptionCodes == {<<"0", "6", "0">>, <<"0", "6", "1">>, <<"a", "b", "c">>}

OptionTokens == {<<"4", "3">>, <<"6", "f">>, <<"z", "z">>}

RECURSIVE join(_, _)
join(tokens, sep) ==
    IF tokens = <<>> THEN <<>>
    ELSE IF Len(tokens) = 1 THEN tokens[1]
    ELSE tokens[1] \o <<sep>> \o join(Tail(tokens), sep)

MaxTokens == 2

RawOptions ==
    {code \o dot \o join(tokens, ".") :
        code \in OptionCodes, dot \in {<<>>, <<".">>}, tokens \in SeqsUpTo(OptionTokens, MaxTokens)}

\* "060.43.69.73.63.6f"
CiscoOption ==
    <<"0", "6", "0", ".", "4", "3", ".", "6", "9", ".", "7", "3", ".", "6", "3", ".", "6", "f">>

DhcpInfoPost(dhcp_op, raw_options) ==
    /\ dhcp' = dhcp_render_POST(dhcp_op, raw_options)
    /\ UNCHANGED not_dhcp_vars

NextDhcp ==
    \E dhcp_op \in {"commit", "expiry", "renew"} :
        \E raw_option \in RawOptions \cup {CiscoOption} : DhcpInfoPost(dhcp_op, <<raw_option>>)

SpecDhcp == Init /\ [][NextDhcp]_vars

\* ----------------------------------------------------------- voting updater
\* A device-info record gives each key a value or leaves it "absent".
DevInfos == [InfoKeys -> InfoValues \cup {"absent"}]

vote(votes, key, value) == [votes EXCEPT ![key][value] = @ + 1]

get_winner_first_of_ties(pool) ==
    LET max_vote == CHOOSE n \in Range(pool) : \A m \in Range(pool) : m <= n
    IN  IF \A v \in InfoValues : pool[v] = max_vote THEN "v1"
        ELSE CHOOSE v \in InfoValues : pool[v] = max_vote

\* The value with the most votes of a key, "unset" when two values tie.
get_winner(pool) ==
    LET max_vote == CHOOSE n \in Range(pool) : \A m \in Range(pool) : m <= n
        winners == {v \in InfoValues : pool[v] = max_vote}
    IN  IF Cardinality(winners) = 1 THEN CHOOSE v \in winners : TRUE ELSE "unset"

\* VotingUpdater.update: vote for each value of the record, then set each
\* voted key to its winner.
voting_update(updater, dev_info) ==
    LET voted == {k \in InfoKeys : dev_info[k] # "absent"}
        votes == [k \in InfoKeys |->
                     IF k \in voted THEN vote(updater.votes, k, dev_info[k])[k]
                     ELSE updater.votes[k]]
    IN  [updater EXCEPT
            !.votes = votes,
            !.dev_info = [k \in InfoKeys |->
                             IF k \in voted THEN get_winner(votes[k]) ELSE @[k]],
            !.fed = Append(@, dev_info)]

VotingUpdate(dev_info) ==
    /\ Len(ident.fed) < MaxFed
    /\ ident' = voting_update(ident, dev_info)
    /\ UNCHANGED not_ident_vars

NextVoting == \E dev_info \in DevInfos : VotingUpdate(dev_info)

SpecVoting == Init /\ [][NextVoting]_vars

\* ------------------------------------------------ remove-outdated-IP updater
\* app.dev_find({ip: ip, id: {$ne: id}})
dev_find_other_holders(ips, id, ip) == {d \in SeenDevices : d # id /\ ips[d] = ip}

remove_outdated_ip_whatever_nat(updater, id, ip) ==
    [updater EXCEPT
        !.run = [device |-> id, ip |-> ip, dev_find |-> <<[ip |-> ip, ne |-> id]>>],
        !.ips = [d \in SeenDevices |->
                    IF d \in dev_find_other_holders(updater.ips, id, ip) THEN "none" ELSE @[d]]]

\* RemoveOutdatedIpDeviceUpdater.update for device id seen at address ip.
remove_outdated_ip(updater, id, ip) ==
    IF updater.nat = 0
    THEN [updater EXCEPT
             !.run = [device |-> id, ip |-> ip, dev_find |-> <<[ip |-> ip, ne |-> id]>>],
             !.ips = [d \in SeenDevices |->
                         IF d \in dev_find_other_holders(updater.ips, id, ip) THEN "none" ELSE @[d]]]
    ELSE [updater EXCEPT !.run = [device |-> id, ip |-> ip, dev_find |-> <<>>]]

\* The NAT parameter of the configure service is set.
SetNat(value) ==
    /\ ident' = [ident EXCEPT !.nat = _set_param_NAT(service.params, value).params.NAT,
                              !.run = NoRun]
    /\ UNCHANGED not_ident_vars

\* A device is stored with an address (dev_insert, dev_update).
AssignIp(d, ip) ==
    /\ ident' = [ident EXCEPT !.ips[d] = ip, !.run = NoRun]
    /\ UNCHANGED not_ident_vars

RemoveOutdatedIp(d, ip) ==
    /\ ident' = remove_outdated_ip(ident, d, ip)
    /\ UNCHANGED not_ident_vars

NextOutdatedIp ==
    \/ \E value \in {"None", "1"} : SetNat(value)
    \/ \E d \in SeenDevices, ip \in Ips : AssignIp(d, ip)
    \/ \E d \in SeenDevices, ip \in Ips : RemoveOutdatedIp(d, ip)

SpecOutdatedIp == Init /\ [][NextOutdatedIp]_vars

\* ------------------------------------------------------ sequential downloads
\* remote_files holds the declared sizes of the files; `dl` is the position
\* of the current download: "running", then "completed" or "failed" once its
\* hook was told, until its deferred fires the callback or the errback.
download_next_file(m) ==
    LET idx == m.cur_file_idx + 1
    IN  IF idx < Len(m.remote_files)
        THEN [m EXCEPT !.cur_file_idx = idx,
                       !.sub_oips = Append(@, async_download_with_oip(None, "file",
                                                  m.remote_files[idx + 1])),
                       !.dl = "running"]
        ELSE [m EXCEPT !.cur_file_idx = idx,
                       !.state = OIP_SUCCESS,
                       !.deferred = "callback",
                       !.dl = "none"]

multiseq_callback(m) == download_next_file(m)

\* Mutant: a failed download is passed over and the next file is downloaded.
multiseq_errback_continuing(m) == download_next_file(m)

multiseq_errback(m) ==
    [m EXCEPT !.state = OIP_FAIL, !.deferred = "errback", !.dl = "none"]

async_download_multiseq_with_oip(remote_files) ==
    download_next_file([NoMultiseq EXCEPT !.remote_files = remote_files,
                                          !.state = OIP_PROGRESS,
                                          !.deferred = "pending"])

MultiseqStart(remote_files) ==
    /\ multi = NoMultiseq
    /\ multi' = async_download_multiseq_with_oip(remote_files)
    /\ UNCHANGED not_multi_vars

MultiseqUpdate(len) ==
    /\ multi.dl = "running"
    /\ multi.sub_oips[Len(multi.sub_oips)].current + len <= MaxCurrent
    /\ multi' = [multi EXCEPT !.sub_oips[Len(multi.sub_oips)] = hook_update(@, len)]
    /\ UNCHANGED not_multi_vars

MultiseqComplete ==
    /\ multi.dl = "running"
    /\ multi' = [multi EXCEPT !.sub_oips[Len(multi.sub_oips)] = hook_complete(@),
                              !.dl = "completed"]
    /\ UNCHANGED not_multi_vars

MultiseqFail ==
    /\ multi.dl = "running"
    /\ multi' = [multi EXCEPT !.sub_oips[Len(multi.sub_oips)] = hook_fail(@),
                              !.dl = "failed"]
    /\ UNCHANGED not_multi_vars

MultiseqCallback ==
    /\ multi.dl = "completed"
    /\ multi' = multiseq_callback(multi)
    /\ UNCHANGED not_multi_vars

MultiseqErrback ==
    /\ multi.dl = "failed"
    /\ multi' = multiseq_errback(multi)
    /\ UNCHANGED not_multi_vars

NextMultiseq ==
    \/ \E remote_files \in SeqsUpTo(Sizes, MaxFiles) : MultiseqStart(remote_files)
    \/ \E len \in ChunkLens : MultiseqUpdate(len)
    \/ MultiseqComplete
    \/ MultiseqFail
    \/ MultiseqCallback
    \/ MultiseqErrback

SpecMultiseq == Init /\ [][NextMultiseq]_vars

\* ------------------------------------------------------ raw config validation
\* The entries of sip_lines: any of the four parameters, with or without a
\* protocol of their own.
SipLines ==
    {[k \in keys |-> 1] @@ own :
        keys \in SUBSET {"proxy_ip", "username", "password", "display_name"},
        own \in {EmptyRaw, "protocol" :> "SIP"}}

LineNos == {"1", "2"}

SipLineMaps ==
    UNION {[nos -> SipLines] : nos \in {n \in SUBSET LineNos : Cardinality(n) <= MaxLines}}

\* Resolved raw configs: the base parameters, a protocol or none, a site-wide
\* sip_proxy_ip or none, sip_lines or none.
SipRawConfigs ==
    {Merge(base_raw_config, protocol @@ proxy @@ lines) :
        protocol \in {EmptyRaw, "protocol" :> "SIP", "protocol" :> "SCCP"},
        proxy \in {EmptyRaw, "sip_proxy_ip" :> 1},
        lines \in {EmptyRaw} \cup {"sip_lines" :> l : l \in SipLineMaps}}

\* _dev_configure of a device with this raw config.
ConfigureAttempt(raw, raises) ==
    /\ checked = NoChecked
    /\ checked' = [raw |-> raw,
                   configured |-> _dev_configure(1, raw, raises).configured,
                   calls |-> _dev_configure(1, raw, raises).calls]
    /\ UNCHANGED not_checked_vars

\* The attempt has returned to its caller.
ConfigureReturn ==
    /\ checked # NoChecked
    /\ checked' = NoChecked
    /\ UNCHANGED not_checked_vars

NextValidation ==
    \/ \E raw \in SipRawConfigs, raises \in BOOLEAN : ConfigureAttempt(raw, raises)
    \/ ConfigureReturn

SpecValidation == Init /\ [][NextValidation]_vars

\* ------------------------------------------------------------ request helper
\* Devices retrieved for a request; vendor and remote_state_sip_username 0
\* stand for an absent key.
RetrievedDevices ==
    [id : 1..NumDevices, configured : BOOLEAN, vendor : 0..MaxVendor,
     remote_state_sip_username : {0}]

\* The updater chain of the tests: sets the vendor of the fresh info, if any.
dev_updater_update(device, dev_info) ==
    IF dev_info.vendor = 0 THEN device ELSE [device EXCEPT !.vendor = dev_info.vendor]

\* The remote-state observation: the sip username of the device's raw config.
update_remote_state(device, sip_username) ==
    [device EXCEPT !.remote_state_sip_username = sip_username]

\* Mutant: a recorded observation is written without dev_update.
update_device_unwritten(device, dev_info, trigger, sip_username) ==
    IF device = NoRetrieved
    THEN [NoHelper EXCEPT !.returned = FALSE]
    ELSE LET updated == dev_updater_update(device, dev_info)
         IN  IF updated = device
             THEN [device |-> device,
                   updated |-> IF trigger
                               THEN update_remote_state(updated, sip_username)
                               ELSE updated,
                   updater_calls |-> 1,
                   dev_update_calls |-> <<>>,
                   returned |-> FALSE]
             ELSE [device |-> device,
                   updated |-> IF trigger
                               THEN update_remote_state(updated, sip_username)
                               ELSE updated,
                   updater_calls |-> 1,
                   dev_update_calls |-> <<[hook |-> TRUE]>>,
                   returned |-> FALSE]

\* _RequestHelper.update_device: nothing without a device; the updater chain
\* runs once; an unchanged device is written only when the remote-state trigger
\* matched, a changed one is written with the pre-update hook that records the
\* remote state.
update_device(device, dev_info, trigger, sip_username) ==
    IF device = NoRetrieved
    THEN [NoHelper EXCEPT !.returned = FALSE]
    ELSE LET updated == dev_updater_update(device, dev_info)
         IN  IF updated = device
             THEN [device |-> device,
                   updated |-> IF trigger
                               THEN update_remote_state(updated, sip_username)
                               ELSE updated,
                   updater_calls |-> 1,
                   dev_update_calls |-> IF trigger THEN <<[hook |-> FALSE]>> ELSE <<>>,
                   returned |-> FALSE]
             ELSE [device |-> device,
                   updated |-> IF trigger
                               THEN update_remote_state(updated, sip_username)
                               ELSE updated,
                   updater_calls |-> 1,
                   dev_update_calls |-> <<[hook |-> TRUE]>>,
                   returned |-> FALSE]

UpdateDevice(device, dev_info, trigger, sip_username) ==
    /\ helper.returned
    /\ helper' = update_device(device, dev_info, trigger, sip_username)
    /\ UNCHANGED not_helper_vars

\* The request has been answered.
RequestDone ==
    /\ ~helper.returned
    /\ helper' = NoHelper
    /\ UNCHANGED not_helper_vars

NextRequest ==
    \/ \E device \in RetrievedDevices \cup {NoRetrieved},
          dev_info \in [vendor : 0..MaxVendor],
          trigger \in BOOLEAN,
          sip_username \in 1..MaxVendor :
          UpdateDevice(device, dev_info, trigger, sip_username)
    \/ RequestDone

SpecRequest == Init /\ [][NextRequest]_vars

\* ------------------------------------------------------- streams of requests
\* One operation of each kind of lock.
StreamOperations == {"dev_update", "dev_synchronize", "dev_find"}

\* A further request arrives: the slot of a finished task is taken by a new
\* call, so that requests keep coming without end.
Again(t) ==
    /\ tasks[t].state = "done"
    /\ tasks' = [tasks EXCEPT ![t].state = "new", ![t].failed = FALSE]
    /\ UNCHANGED <<rw_lock, not_lock_vars>>

NextLockStream ==
    \/ \E t \in TaskIds, name \in StreamOperations : Call(t, name)
    \/ \E t \in TaskIds : Suspend(t)
    \/ \E t \in TaskIds : Resume(t)
    \/ \E t \in TaskIds, failed \in BOOLEAN : Fire(t, failed)
    \/ \E t \in TaskIds : Again(t)

\* Every plugin call and collection call terminates: a deferred an operation
\* waits on fires, and an operation that keeps running ends.
SpecLockFair ==
    /\ Init
    /\ [][NextLockStream]_vars
    /\ \A t \in TaskIds : WF_vars(Resume(t))
    /\ \A t \in TaskIds : SF_vars(\E failed \in BOOLEAN : Fire(t, failed))

\* ================================================================== claims
\* A plugin call in the log (the other entries are collection writes).
PluginCall(e) == e[1] \in {"configure", "deconfigure", "synchronize"}

\* Device d, as stored, can be handed to its plugin: the plugin is loaded,
\* the config resolves and the raw config passes validation.
Configurable(d) ==
    LET rc == _dev_get_raw_config(cfgs, devs[d])
    IN  /\ _dev_get_plugin(loaded, devs[d]) # None
        /\ rc.found
        /\ _check_raw_config_validity(rc.raw)

\* The outcome of validate-then-configure for device d in the operation just
\* run: d is configurable and plugin.configure was called and did not raise.
ConfigureSucceeded(d) ==
    Configurable(d) /\ <<"configure", d, FALSE>> \in Range(log)

\* The latest plugin.configure call of the operation just run for d raised.
LatestConfigureRaised(d) ==
    \E i \in DOMAIN log :
       /\ log[i] = <<"configure", d, TRUE>>
       /\ \A j \in (i + 1)..Len(log) : ~(log[j][1] = "configure" /\ log[j][2] = d)

\* C1: in every state between operations, every stored device with
\* configured = true has a plugin field naming a plugin that is loaded.
ConfiguredImpliesPluginLoaded ==
    \A d \in DOMAIN devs : devs[d].configured => devs[d].plugin \in loaded

\* C2: in every state between operations, every stored device with
\* configured = true has a config that resolves to a raw config passing
\* validation, and its latest plugin.configure call (among those of the
\* operation just run) did not raise.
ConfiguredImpliesValidConfig ==
    \A d \in DOMAIN devs :
       devs[d].configured =>
          LET rc == _dev_get_raw_config(cfgs, devs[d])
          IN  /\ rc.found
              /\ _check_raw_config_validity(rc.raw)
              /\ ~LatestConfigureRaised(d)

\* C3: dev_insert ignores the configured value of its input: the device is
\* first persisted with configured = false, plugin.configure is called iff
\* the device is configurable, and the stored flag ends true iff that call
\* was made and did not raise.
DevInsertIgnoresConfiguredInput ==
    (op.name = "dev_insert" /\ op.res = "ok") =>
       /\ log[1] = <<"dev.insert", op.id, FALSE>>
       /\ (op.id \in CallsOf("configure", log)) = Configurable(op.id)
       /\ devs[op.id].configured = ConfigureSucceeded(op.id)
       /\ devs[op.id].plugin = op.doc.plugin
       /\ devs[op.id].config = op.doc.config

\* C3 witness: an insert whose input says configured = true and whose device
\* is stored with configured = false.
DevInsertIgnoresConfiguredInputWitness ==
    /\ op.name = "dev_insert"
    /\ op.res = "ok"
    /\ op.doc.configured
    /\ ~devs[op.id].configured

\* C4: after a cfg_update(c) that changes the config, every stored device on
\* c or on a descendant of c has configured equal to the outcome of
\* validate-then-configure on its newly resolved raw config.
CfgUpdateCascadeOutcome ==
    (op.name = "cfg_update" /\ op.res = "ok") =>
       \A d \in DOMAIN devs :
          devs[d].config \in {op.id} \cup get_descendants(cfgs, op.id) =>
             devs[d].configured = ConfigureSucceeded(d)

\* C5: after cfg_delete(c), every device on c is stored with configured =
\* false and every device on a descendant of c with configured equal to the
\* outcome of the configure attempt on its newly resolved raw config.
CfgDeleteCascadeOutcome ==
    (op.name = "cfg_delete" /\ op.res = "ok") =>
       \A d \in DOMAIN devs :
          /\ devs[d].config = op.id => ~devs[d].configured
          /\ devs[d].config \in get_descendants(cfgs, op.id) =>
                devs[d].configured = ConfigureSucceeded(d)

\* C6: after pg_uninstall(id), every stored device with plugin = id has
\* configured = false, and plugin.deconfigure was called for no device.
PgUninstallSoftDeconfigures ==
    (op.name = "pg_uninstall" /\ op.res = "ok") =>
       /\ \A d \in DOMAIN devs : devs[d].plugin = op.id => ~devs[d].configured
       /\ \A i \in DOMAIN log : ~PluginCall(log[i])

\* C6 witness: an uninstall that turned a configured device to unconfigured.
PgUninstallSoftDeconfiguresWitness ==
    /\ op.name = "pg_uninstall"
    /\ op.res = "ok"
    /\ \E d \in DOMAIN devs : <<"dev.update", d, FALSE>> \in Range(log)

\* C7: in dev_update, dev_reconfigure, pg_reload and the config cascades,
\* every plugin.configure call for a device whose stored configured flag was
\* true comes after a deconfigure call for that device in the same
\* operation, with no other plugin call for the device in between.
DeconfigurePrecedesConfigure ==
    [][op'.name \in {"dev_update", "dev_reconfigure", "pg_reload",
                     "cfg_insert", "cfg_update", "cfg_delete"} =>
          \A i \in DOMAIN log' :
             (/\ log'[i][1] = "configure"
              /\ log'[i][2] \in DOMAIN devs
              /\ devs[log'[i][2]].configured) =>
                \E j \in 1..(i - 1) :
                   /\ log'[j][1] = "deconfigure"
                   /\ log'[j][2] = log'[i][2]
                   /\ \A k \in (j + 1)..(i - 1) :
                         ~(PluginCall(log'[k]) /\ log'[k][2] = log'[i][2])]_vars

\* C8: dev_update with a document equal to the stored one succeeds, calls
\* neither deconfigure nor configure, and writes to neither collection.
DevUpdateSameDocIsNoop ==
    [][(/\ op'.name = "dev_update"
        /\ op'.id \in DOMAIN devs
        /\ op'.doc = devs[op'.id]) =>
          /\ op'.res = "ok"
          /\ log' = <<>>
          /\ devs' = devs
          /\ cfgs' = cfgs]_vars

\* C8 witness: an update of a configured device with its stored document.
DevUpdateSameDocIsNoopWitness ==
    /\ op.name = "dev_update"
    /\ op.res = "ok"
    /\ op.id \in DOMAIN devs
    /\ op.doc = devs[op.id]
    /\ devs[op.id].configured
    /\ log = <<>>

\* C9: dev_synchronize on a stored device with configured = false fails with
\* the not-configured error, does not call plugin.synchronize and leaves
\* both collections unchanged.
DevSynchronizeNeedsConfigured ==
    [][(/\ op'.name = "dev_synchronize"
        /\ op'.id \in DOMAIN devs
        /\ ~devs[op'.id].configured) =>
          /\ op'.res = "NotConfigured"
          /\ \A i \in DOMAIN log' : ~PluginCall(log'[i])
          /\ devs' = devs
          /\ cfgs' = cfgs]_vars

\* C9 witness: a synchronize refused on an unconfigured device that has a
\* loaded plugin and a valid config.
DevSynchronizeNeedsConfiguredWitness ==
    /\ op.name = "dev_synchronize"
    /\ op.res = "NotConfigured"
    /\ Configurable(op.id)

\* The device of the operation stops referencing its transient config c.
StopsReferencing(d, c) ==
    /\ c # None
    /\ c \in DOMAIN cfgs
    /\ cfgs[c].transient
    /\ d \notin DOMAIN devs' \/ devs'[d].config # c

TransientConfigsReferenced ==
    \A c \in DOMAIN cfgs :
       cfgs[c].transient => \E d \in DOMAIN devs : devs[d].config = c

\* C12: cfg_delete of a stored config with deletable = false fails with the
\* non-deletable error, answered 403; the config stays stored and no device
\* is deconfigured, reconfigured or modified.
CfgDeleteRefusesNonDeletable ==
    [][(/\ op'.name = "cfg_delete"
        /\ op'.id \in DOMAIN cfgs
        /\ ~cfgs[op'.id].deletable) =>
          /\ op'.res = "NonDeletableError"
          /\ render_DELETE(op'.res) = 403
          /\ cfgs' = cfgs
          /\ devs' = devs
          /\ log' = <<>>]_vars

\* C12 witness: a refused cfg_delete of a config that a configured device
\* references.
CfgDeleteRefusesNonDeletableWitness ==
    /\ op.name = "cfg_delete"
    /\ op.res = "NonDeletableError"
    /\ \E d \in DOMAIN devs : devs[d].config = op.id /\ devs[d].configured

\* The lock task t asked for ("none" before its call).
LockOf(t) == lock_of(tasks[t].name)

\* Task t starts in this step.
Starts(t) == ~InProgress(t) /\ tasks'[t].state = "running"

\* C13: a function run under the write lock is never in progress together
\* with another function run under the read or the write lock, and a writer
\* starts only once the deferred of every earlier holder has fired.
LockMutualExclusion ==
    [][/\ \A t, u \in TaskIds :
            (/\ t # u
             /\ tasks'[t].state \in {"running", "suspended"}
             /\ tasks'[u].state \in {"running", "suspended"}
             /\ lock_of(tasks'[t].name) = "write") =>
                lock_of(tasks'[u].name) = "none"
       /\ \A t \in TaskIds :
            (Starts(t) /\ lock_of(tasks'[t].name) = "write") =>
                \A u \in TaskIds \ {t} :
                   (InProgress(u) /\ LockOf(u) # "none") =>
                       tasks'[u].state = "done"]_vars

\* C13 witness: a writer waits while a reader is in progress.
LockMutualExclusionWitness ==
    \E t, u \in TaskIds :
       /\ LockOf(t) = "write" /\ tasks[t].state = "waiting"
       /\ LockOf(u) = "read" /\ InProgress(u)

\* C14: no reader starts while a writer that asked for the lock before it is
\* still waiting.
WriterPreference ==
    [][\A r \in TaskIds :
          (Starts(r) /\ lock_of(tasks'[r].name) = "read") =>
             ~\E w \in 1..(r - 1) :
                 LockOf(w) = "write" /\ tasks[w].state = "waiting"]_vars

\* C14 witness: a reader waits behind a waiting writer while an earlier
\* reader is in progress.
WriterPreferenceWitness ==
    \E r1, w, r2 \in TaskIds :
       /\ r1 < w /\ w < r2
       /\ LockOf(r1) = "read" /\ InProgress(r1)
       /\ LockOf(w) = "write" /\ tasks[w].state = "waiting"
       /\ LockOf(r2) = "read" /\ tasks[r2].state = "waiting"

\* A writer releases the lock in this step.
WriterReleases(t) ==
    LockOf(t) = "write" /\ InProgress(t) /\ tasks'[t].state = "done"

\* C15: when a writer releases the lock, all the waiting readers start
\* together if no writer is queued; otherwise the first queued writer starts
\* alone, ahead of every waiting reader.
WriterReleaseHandsOver ==
    [][\A t \in TaskIds : WriterReleases(t) =>
          IF rw_lock.waiting_writers = <<>>
          THEN \A r \in TaskIds :
                  (LockOf(r) = "read" /\ tasks[r].state = "waiting") => Starts(r)
          ELSE /\ Starts(Head(rw_lock.waiting_writers))
               /\ \A u \in TaskIds \ {Head(rw_lock.waiting_writers)} : ~Starts(u)]_vars

\* C15 witness: w1, r1, w2 asked in that order; w1 has released, w2 runs and
\* r1 still waits.
WriterReleaseHandsOverWitness ==
    /\ LockOf(1) = "write" /\ tasks[1].state = "done"
    /\ LockOf(2) = "read" /\ tasks[2].state = "waiting"
    /\ LockOf(3) = "write" /\ InProgress(3)

\* C16: a read-lock request made while only readers hold the lock and no
\* writer waits is admitted at once.
ReadersShareLock ==
    [][\A t \in TaskIds :
          (/\ tasks[t].state = "new"
           /\ tasks'[t].state # "new"
           /\ lock_of(tasks'[t].name) = "read"
           /\ rw_lock.reading > 0
           /\ ~rw_lock.writing
           /\ rw_lock.waiting_writers = <<>>) =>
              tasks'[t].state = "running"]_vars

\* C16 witness: two readers in progress at the same time.
ReadersShareLockWitness ==
    \E t, u \in TaskIds :
       /\ t # u
       /\ LockOf(t) = "read" /\ InProgress(t)
       /\ LockOf(u) = "read" /\ InProgress(u)

\* The operations the lock discipline calls writes, and those it calls reads.
WriteOperations ==
    {"dev_insert", "dev_update", "dev_delete", "dev_reconfigure",
     "cfg_insert", "cfg_update", "cfg_delete", "cfg_create_new",
     "pg_install", "pg_upgrade", "pg_uninstall", "pg_reload"}

ReadOperations ==
    {"dev_retrieve", "dev_find", "dev_find_one", "cfg_retrieve", "cfg_find",
     "cfg_retrieve_raw_config", "dev_synchronize"}

\* C17: no two write operations are in progress at the same time, suspension
\* points included.
WriteOperationsSerialized ==
    \A t, u \in TaskIds :
       (/\ t # u
        /\ tasks[t].name \in WriteOperations
        /\ tasks[u].name \in WriteOperations) =>
           ~(InProgress(t) /\ InProgress(u))

\* C17 witness: a cfg_update is suspended in its cascade while another write
\* operation waits for it.
WriteOperationsSerializedWitness ==
    \E t, u \in TaskIds :
       /\ tasks[t].name = "cfg_update" /\ tasks[t].state = "suspended"
       /\ tasks[u].name \in WriteOperations /\ tasks[u].state = "waiting"

\* C18: no read operation is in progress while a write operation is.
ReadOperationsExcludeWrites ==
    \A t, u \in TaskIds :
       (/\ tasks[t].name \in ReadOperations
        /\ tasks[u].name \in WriteOperations) =>
           ~(InProgress(t) /\ InProgress(u))

\* The plugin of stored device d is loaded and its config resolves, but the
\* raw config does not pass validation.
ValidationFails(d) ==
    LET rc == _dev_get_raw_config(cfgs, devs[d])
    IN  /\ _dev_get_plugin(loaded, devs[d]) # None
        /\ rc.found
        /\ ~_check_raw_config_validity(rc.raw)

\* The operation of this step goes through validate-then-configure for
\* device d: a dev_insert or dev_reconfigure of d, a dev_update of d with a
\* change of plugin or config, or a cascade over the config of d.
Reconfigures(d) ==
    /\ op'.res \in {"ok", "AssertionError"}
    /\ d \in DOMAIN devs'
    /\ \/ op'.name \in {"dev_insert", "dev_reconfigure"} /\ op'.id = d
       \/ /\ op'.name = "dev_update"
          /\ op'.id = d
          /\ needs_reconfiguration(devs[d], op'.doc)
       \/ /\ op'.name \in {"cfg_insert", "cfg_update"}
          /\ devs[d].config \in get_descendants(cfgs', op'.id) \cup {op'.id}
       \/ /\ op'.name = "cfg_delete"
          /\ devs[d].config \in get_descendants(cfgs', op'.id)

\* C19: when raw-config validation fails or plugin.configure raises during
\* dev_insert, dev_update, dev_reconfigure or a config cascade, the operation
\* succeeds and the device is stored with configured = false.
ConfigureErrorsSwallowed ==
    [][\A d \in DevIds :
          (/\ Reconfigures(d)
           /\ ValidationFails(d)' \/ LatestConfigureRaised(d)') =>
              (op'.res = "ok" /\ ~devs'[d].configured)]_vars

\* C20: when plugin.deconfigure raises during dev_update, dev_reconfigure or
\* a config cascade, the operation succeeds and the device ends stored with
\* configured = false.
DeconfigureErrorsSwallowed ==
    [][\A d \in DevIds :
          (/\ op'.name \in {"dev_update", "dev_reconfigure",
                            "cfg_insert", "cfg_update", "cfg_delete"}
           /\ <<"deconfigure", d, TRUE>> \in Range(log')) =>
              (op'.res = "ok" /\ ~devs'[d].configured)]_vars

OipStateTransitions ==
    [][\A i \in DOMAIN oips.list :
          oips'.list[i].state # oips.list[i].state
              => /\ oips.list[i].state = OIP_PROGRESS
                 /\ oips'.list[i].state \in {OIP_SUCCESS, OIP_FAIL}]_vars

\* C22: current never decreases and never exceeds end, whatever chunks the
\* download hook receives.
OipCurrentBounded ==
    [][\A i \in DOMAIN oips'.list :
          /\ oips'.list[i].current <= oips'.list[i].end
          /\ i \in DOMAIN oips.list => oips'.list[i].current >= oips.list[i].current]_vars

\* A pg_install or pg_upgrade of id is called in this step.
OipCalled(name, id) ==
    /\ oips'.call.name = name
    /\ oips'.call.id = id
    /\ \/ oips'.call # oips.call
       \/ Len(oips'.list) # Len(oips.list)

\* C23: a pg_install or pg_upgrade of a plugin whose earlier install or upgrade
\* has reached neither success nor fail is rejected at once with the "already
\* in progress" error and starts nothing.
OipConcurrentRejected ==
    [][\A id \in PluginIds, name \in {"pg_install", "pg_upgrade"} :
          (pg_mgr_in_progress(oips, id) /\ OipCalled(name, id))
              => /\ oips'.call.res = "InProgress"
                 /\ oips'.list = oips.list
                 /\ oips'.installed = oips.installed]_vars

\* C24: pg_install of an installed plugin and pg_upgrade of a plugin that is
\* not installed return an error at once, create no handle and change nothing.
OipRefusedSynchronously ==
    [][\A id \in PluginIds :
          /\ (id \in oips.installed /\ OipCalled("pg_install", id))
                 => /\ oips'.call.res # "ok"
                    /\ oips'.list = oips.list
                    /\ oips'.installed = oips.installed
          /\ (id \notin oips.installed /\ OipCalled("pg_upgrade", id))
                 => /\ oips'.call.res # "ok"
                    /\ oips'.list = oips.list
                    /\ oips'.installed = oips.installed]_vars

\* C24 witness: an install of the plugin succeeded and a second pg_install of
\* it was refused.
OipRefusedSynchronouslyWitness ==
    /\ oips.call = [name |-> "pg_install", id |-> 1, res |-> "AlreadyInstalled"]
    /\ \E i \in DOMAIN oips.list :
           /\ oips.list[i].kind = "install"
           /\ oips.list[i].state = OIP_SUCCESS
           /\ oips.list[i].phase = "done"

\* ------------------------------------------------------- claims on tenants
\* C25: after dev_insert the stored tenant_uuid is the input's when the input
\* gives one (a tenant, not a missing, null or empty value), else the engine's
\* tenant, and is_new is true exactly when it equals the engine's tenant.
TenantRule ==
    [][\A d \in DevIds :
          (tenants.devs[d] = NoTenantDoc /\ tenants'.devs[d] # NoTenantDoc)
              => LET input == tenants'.last.input
                     stored == tenants'.devs[d]
                 IN  /\ tenants'.last.id = d
                     /\ input \in TenantUuids => stored.tenant_uuid = input
                     /\ input \notin TenantUuids => stored.tenant_uuid = tenants.engine
                     /\ stored.is_new <=> (stored.tenant_uuid = tenants.engine)]_vars

\* C25 witness: a device inserted with the tenant of another engine tenant is
\* stored with that tenant and is not new.
TenantRuleWitness ==
    /\ tenants.engine = "tenant-a"
    /\ tenants.last = [id |-> 1, input |-> "tenant-b"]
    /\ tenants.devs[1] = [tenant_uuid |-> "tenant-b", is_new |-> FALSE]
    /\ tenants.devs[2] = [tenant_uuid |-> "tenant-a", is_new |-> TRUE]

\* ------------------------------------------- claims on the configure service
\* The values the parameter table of the configure service rules out.
InvalidValue(key, value) ==
    CASE key \in {"http_proxy", "ftp_proxy"} -> value \notin {"None", "http://proxy:8080"}
      [] key = "https_proxy" -> value \in {"", "http://proxy:8080", "http://proxy/path"}
      [] key = "plugin_server" -> value \notin {"None", "http://proxy:8080", "http://proxy/path"}
      [] key = "locale" -> value = "caf\\xe9"
      [] key = "NAT" -> value \notin {"None", "0", "1"}
      [] OTHER -> FALSE

\* C26: a set with an unknown key answers 404, a set with an invalid value
\* answers 400, in both cases every key reads as before; NAT is 0 or 1.
ParameterErrorsChangeNothing ==
    [][LET put == service'.last
       IN  /\ put.key \notin ParamKeys => put.status = 404
           /\ (put.key \in ParamKeys /\ InvalidValue(put.key, put.value)) => put.status = 400
           /\ put.status \in {400, 404}
                 => \A k \in ParamKeys : service_get(service'.params, k) = service_get(service.params, k)
           /\ service_get(service'.params, "NAT") \in {0, 1}]_vars

\* C26 witness: NAT was set to 1, then a PUT of NAT with the value 2 was refused.
ParameterErrorsChangeNothingWitness ==
    /\ service.last = [key |-> "NAT", value |-> "2", status |-> 400]
    /\ service.params.NAT = 1
    /\ service.params.http_proxy = "http://proxy:8080"

\* ----------------------------------------------------- claims on DHCP info
\* The number a three-digit option code stands for, the byte a hex pair
\* stands for.
CodeNumber(code) == IF code = <<"0", "6", "0">> THEN 60 ELSE 61

ByteOf(pair) == IF pair = <<"4", "3">> THEN 67 ELSE 111

\* C27: an option NNN.XX.XX... of a commit decodes to the option code NNN
\* with the bytes XX, and the commit is accepted; "060.43.69.73.63.6f"
\* decodes to option 60 with the bytes of "Cisco".
DhcpOptionsDecoded ==
    /\ \A code \in {<<"0", "6", "0">>, <<"0", "6", "1">>} :
         \A pairs \in SeqsUpTo({<<"4", "3">>, <<"6", "f">>}, MaxTokens) \ {<<>>} :
            (dhcp.op = "commit" /\ dhcp.raw_options = <<code \o <<".">> \o join(pairs, ".")>>)
                => /\ dhcp.status = 204
                   /\ dhcp.options = {<<CodeNumber(code), [i \in DOMAIN pairs |-> ByteOf(pairs[i])]>>}
    /\ (dhcp.op = "commit" /\ dhcp.raw_options = <<CiscoOption>>)
          => /\ dhcp.status = 204
             /\ dhcp.options = {<<60, <<67, 105, 115, 99, 111>>>>}

\* ------------------------------------------------- claims on identification
\* The number of records of the sequence that give the value to the key.
RECURSIVE VotesFor(_, _, _)
VotesFor(fed, key, value) ==
    IF fed = <<>> THEN 0
    ELSE (IF Head(fed)[key] = value THEN 1 ELSE 0) + VotesFor(Tail(fed), key, value)

\* C28: the voting updater holds, per key, the value most of the fed records
\* give it, whatever their order, and leaves unset a key whose values tie.
VotingYieldsMajority ==
    \A k \in InfoKeys :
        LET v1 == VotesFor(ident.fed, k, "v1")
            v2 == VotesFor(ident.fed, k, "v2")
        IN  /\ v1 > v2 => ident.dev_info[k] = "v1"
            /\ v2 > v1 => ident.dev_info[k] = "v2"
            /\ v1 = v2 => ident.dev_info[k] = "unset"

\* C28 witness: k1 was given v2, v1, v1 and holds v1, after k2 tied.
VotingYieldsMajorityWitness ==
    /\ Len(ident.fed) = 3
    /\ <<ident.fed[1].k1, ident.fed[2].k1, ident.fed[3].k1>> = <<"v2", "v1", "v1">>
    /\ <<ident.fed[1].k2, ident.fed[2].k2, ident.fed[3].k2>> = <<"v1", "v2", "absent">>
    /\ ident.dev_info = [k1 |-> "v1", k2 |-> "unset"]

\* The updater ran in this step for device d seen at address ip.
UpdaterRan(d, ip) ==
    /\ ident'.run.device = d
    /\ ident'.run.ip = ip
    /\ ident'.nat = ident.nat
    /\ ident'.run # ident.run \/ ident'.ips # ident.ips

\* C29: with NAT = 0 the updater asks for the devices that hold the observed
\* address under another id and clears the address of each of them; with
\* NAT = 1 it makes no call to dev_find and changes no device.
OutdatedIpRemovedUnlessNat ==
    [][\A d \in SeenDevices, ip \in Ips :
          UpdaterRan(d, ip)
              => /\ ident.nat = 0
                    => /\ ident'.run.dev_find = <<[ip |-> ip, ne |-> d]>>
                       /\ \A e \in SeenDevices :
                             ident'.ips[e] = IF e # d /\ ident.ips[e] = ip
                                             THEN "none" ELSE ident.ips[e]
                 /\ ident.nat = 1
                    => /\ ident'.run.dev_find = <<>>
                       /\ ident'.ips = ident.ips]_vars

\* C29 witness: with NAT = 0 the updater ran for device 1, which alone holds
\* the address it was seen at.
OutdatedIpRemovedUnlessNatWitness ==
    /\ ident.nat = 0
    /\ ident.run = [device |-> 1, ip |-> "1.1.1.1", dev_find |-> <<[ip |-> "1.1.1.1", ne |-> 1]>>]
    /\ ident.ips = [d \in SeenDevices |-> IF d = 1 THEN "1.1.1.1" ELSE IF d = 2 THEN "none" ELSE "1.1.1.2"]

\* ------------------------------------------------ claims on the cascades
\* The operation of this step is a config cascade that wrote its config, and
\* d is one of its affected devices with a loaded plugin.
CascadeAffects(d) ==
    /\ op'.name \in {"cfg_insert", "cfg_update", "cfg_delete"}
    /\ log' # <<>>
    /\ d \in DOMAIN devs
    /\ _dev_get_plugin(loaded, devs[d]) # None
    /\ devs[d].config \in get_descendants(cfgs', op'.id) \cup {op'.id}

\* C31: a config cascade is a best-effort batch: the operation does not fail,
\* every affected device is deconfigured if it was configured and, unless it
\* is on the deleted config, goes through validate-then-configure, and a
\* device whose validation or plugin.configure fails is stored with
\* configured = false.
CascadeBestEffort ==
    [][\A d \in DevIds :
          CascadeAffects(d) =>
             /\ op'.res = "ok"
             /\ devs[d].configured => d \in CallsOf("deconfigure", log')
             /\ ~(op'.name = "cfg_delete" /\ devs[d].config = op'.id)
                   => ValidationFails(d)' \/ d \in CallsOf("configure", log')
             /\ (ValidationFails(d)' \/ LatestConfigureRaised(d)')
                   => ~devs'[d].configured]_vars

OipSuccessAfterLoad ==
    \A i \in DOMAIN oips.list :
       (oips.list[i].kind = "install" /\ oips.list[i].state = OIP_SUCCESS)
           => oips.list[i].phase = "done"

\* C34: after a pg_reload whose load failed, the error is the operation's
\* result and every stored device of the plugin has configured = false; after
\* one whose load succeeded, the plugin is loaded and every stored device of
\* the plugin has configured equal to the outcome of its configure attempt.
PgReloadOutcome ==
    (op.name = "pg_reload" /\ op.res # "NotInstalled") =>
       /\ op.res \in {"ok", "LoadError"}
       /\ op.res = "LoadError" =>
             \A d \in DOMAIN devs : devs[d].plugin = op.id => ~devs[d].configured
       /\ op.res = "ok" =>
             /\ op.id \in loaded
             /\ \A d \in DOMAIN devs :
                   devs[d].plugin = op.id => devs[d].configured = ConfigureSucceeded(d)

\* C34 witness: a reload whose load failed turned a configured device to
\* unconfigured.
PgReloadOutcomeWitness ==
    /\ op.name = "pg_reload"
    /\ op.res = "LoadError"
    /\ \E d \in DOMAIN devs :
          /\ devs[d].plugin = op.id
          /\ <<"deconfigure", d, FALSE>> \in Range(log)
          /\ <<"dev.update", d, FALSE>> \in Range(log)

\* ----------------------------------------------- claims on sequential downloads
\* The sub-handles that reached the state.
SubOipsIn(m, state) == {i \in DOMAIN m.sub_oips : m.sub_oips[i].state = state}

\* C35: the files are downloaded one after another in list order: a download
\* is started only when every earlier one succeeded; after a failure no
\* download is started, the top handle ends in fail and the deferred
\* errbacks; the top handle is in success exactly when every file was
\* downloaded; sub_oips only grows, by one entry per started download.
MultiseqSequential ==
    [][LET m == multi'
           n == Len(m.sub_oips)
       IN  /\ n <= Len(m.remote_files)
           /\ \A i \in 1..n : m.sub_oips[i].end = m.remote_files[i]
           /\ \A i \in 1..(n - 1) : m.sub_oips[i].state = OIP_SUCCESS
           /\ Len(multi.sub_oips) <= n /\ n <= Len(multi.sub_oips) + 1
           /\ SubOipsIn(multi, OIP_FAIL) # {} => n = Len(multi.sub_oips)
           /\ (SubOipsIn(m, OIP_FAIL) # {} /\ m.dl = "none")
                 => m.state = OIP_FAIL /\ m.deferred = "errback"
           /\ m.state = OIP_FAIL <=> m.deferred = "errback"
           /\ m.state = OIP_SUCCESS <=> m.deferred = "callback"
           /\ m.state = OIP_SUCCESS
                 <=> /\ m.deferred # "none"
                     /\ m.dl = "none"
                     /\ SubOipsIn(m, OIP_SUCCESS) = 1..Len(m.remote_files)]_vars

\* C35 witness: of three files the second failed: the third was not started
\* and the top handle ended in fail.
MultiseqSequentialWitness ==
    /\ Len(multi.remote_files) = 3
    /\ Len(multi.sub_oips) = 2
    /\ multi.sub_oips[1].state = OIP_SUCCESS
    /\ multi.sub_oips[2].state = OIP_FAIL
    /\ multi.state = OIP_FAIL
    /\ multi.deferred = "errback"

\* -------------------------------------------- claims on raw config validation
\* Some entry of sip_lines lacks one of the parameters.
SomeLineLacks(raw, params) ==
    /\ Has(raw, "sip_lines")
    /\ \E no \in DOMAIN raw["sip_lines"] :
          \E param \in params : ~Has(raw["sip_lines"][no], param)

\* Some entry of sip_lines has protocol "SIP" and lacks one of the parameters.
SomeSipLineLacks(raw, params) ==
    /\ Has(raw, "sip_lines")
    /\ \E no \in DOMAIN raw["sip_lines"] :
          LET line == raw["sip_lines"][no]
          IN  /\ Has(line, "protocol")
              /\ line["protocol"] = "SIP"
              /\ \E param \in params : ~Has(line, param)

\* The raw config was refused: no configure call, the attempt returned false.
Rejected == checked.calls = <<>> /\ ~checked.configured

\* C36: a raw config in which some sip_lines entry has protocol "SIP" and
\* lacks username, password or display_name is rejected, and so is one in
\* which some entry lacks proxy_ip with no site-wide sip_proxy_ip; such a raw
\* config is never handed to plugin.configure.
SipLinesValidated ==
    /\ SomeSipLineLacks(checked.raw, {"username", "password", "display_name"}) => Rejected
    /\ (SomeLineLacks(checked.raw, {"proxy_ip"}) /\ ~Has(checked.raw, "sip_proxy_ip"))
          => Rejected

\* C36 amended: a raw config whose protocol is "SIP" and in which some
\* sip_lines entry lacks username, password or display_name is rejected, and
\* so is one in which some entry lacks proxy_ip with no site-wide
\* sip_proxy_ip; such a raw config is never handed to plugin.configure.
SipLinesValidatedOnRawProtocol ==
    /\ (/\ Has(checked.raw, "protocol")
        /\ checked.raw["protocol"] = "SIP"
        /\ SomeLineLacks(checked.raw, {"username", "password", "display_name"}))
          => Rejected
    /\ (SomeLineLacks(checked.raw, {"proxy_ip"}) /\ ~Has(checked.raw, "sip_proxy_ip"))
          => Rejected

\* C36 witness: a raw config of protocol "SIP" with a line that has a
\* proxy_ip of its own and no password was refused.
SipLinesValidatedOnRawProtocolWitness ==
    /\ Has(checked.raw, "protocol")
    /\ checked.raw["protocol"] = "SIP"
    /\ Has(checked.raw, "sip_lines")
    /\ DOMAIN checked.raw["sip_lines"] = {"1"}
    /\ DOMAIN checked.raw["sip_lines"]["1"] = {"proxy_ip", "username", "display_name"}
    /\ Rejected

\* ------------------------------------------------ claims on the request helper
\* The updater chain changed the device, the remote state apart.
HelperDeviceChanged ==
    /\ helper.device # NoRetrieved
    /\ helper.updated.vendor # helper.device.vendor

\* A remote-state observation was recorded into the device.
HelperObservationRecorded ==
    /\ helper.device # NoRetrieved
    /\ helper.updated.remote_state_sip_username
         # helper.device.remote_state_sip_username

\* C37: the update step of the request helper runs no updater without a
\* retrieved device; it does not call dev_update when the updater chain left
\* the device unchanged and no remote-state observation was recorded; it calls
\* dev_update exactly once when the device changed or an observation was
\* recorded.
UpdateStepWritesOnce ==
    ~helper.returned =>
        /\ helper.device = NoRetrieved =>
              helper.updater_calls = 0 /\ helper.dev_update_calls = <<>>
        /\ (helper.device # NoRetrieved /\ ~HelperDeviceChanged /\ ~HelperObservationRecorded)
              => (helper.updater_calls = 1 /\ helper.dev_update_calls = <<>>)
        /\ (HelperDeviceChanged \/ HelperObservationRecorded)
              => Len(helper.dev_update_calls) = 1

\* C37 witness: an unchanged device whose remote state was recorded has been
\* written by one dev_update.
UpdateStepWritesOnceWitness ==
    /\ ~helper.returned
    /\ ~HelperDeviceChanged
    /\ HelperObservationRecorded
    /\ Len(helper.dev_update_calls) = 1

\* ------------------------------------------------ claims on failing operations
\* Task t, run under a lock, ends with a failure in this step.
FailsUnderLock(t) ==
    /\ InProgress(t)
    /\ LockOf(t) # "none"
    /\ tasks'[t].state = "done"
    /\ tasks'[t].failed

\* C38: when an operation run under the read or the write lock fails, the
\* lock is released: afterwards the lock counts exactly the operations still
\* in progress under it, and if the failed operation was the last holder the
\* operations queued behind it are admitted (the first queued writer, or else
\* every queued reader).
LockReleasedOnFailure ==
    [][\A t \in TaskIds : FailsUnderLock(t) =>
          /\ rw_lock'.writing =
                (\E u \in TaskIds :
                    /\ tasks'[u].state \in {"running", "suspended"}
                    /\ lock_of(tasks'[u].name) = "write")
          /\ rw_lock'.reading =
                Cardinality({u \in TaskIds :
                    /\ tasks'[u].state \in {"running", "suspended"}
                    /\ lock_of(tasks'[u].name) = "read"})
          /\ (/\ \A u \in TaskIds \ {t} : ~(InProgress(u) /\ LockOf(u) # "none")
              /\ \E u \in TaskIds : tasks[u].state = "waiting")
                => \E u \in TaskIds : tasks[u].state = "waiting" /\ Starts(u)]_vars

\* C38 witness: w1, r2, w3 asked in that order; w1 has failed, w3 queued
\* behind it runs, and r2 still waits behind w3.
LockReleasedOnFailureWitness ==
    /\ LockOf(1) = "write" /\ tasks[1].state = "done" /\ tasks[1].failed
    /\ LockOf(2) = "read" /\ tasks[2].state = "waiting"
    /\ LockOf(3) = "write" /\ InProgress(3)

\* ---------------------------------------------------------- claims on progress
\* C39: as long as every call an operation waits on terminates, every
\* requested operation is eventually started under its lock and completes,
\* a write request included while read requests keep coming.
RequestsComplete ==
    \A t \in TaskIds :
       (tasks[t].state \in {"waiting", "running", "suspended"})
          ~> (tasks[t].state = "done")

\* A request for the write lock arrives in this step.
WriteRequested ==
    \E u \in TaskIds, name \in StreamOperations :
       lock_of(name) = "write" /\ Call(u, name)

\* C39 amended: as long as every call an operation waits on terminates, every
\* requested operation that asked for the write lock or for no lock is
\* eventually started and completes, a write request included while read
\* requests keep coming; an operation that asked for the read lock is
\* eventually started and completes unless write requests keep coming.
RequestsCompleteUnlessWritesKeepComing ==
    /\ \A t \in TaskIds :
          (LockOf(t) # "read" /\ tasks[t].state \in {"waiting", "running", "suspended"})
             ~> (tasks[t].state = "done")
    /\ \A t \in TaskIds :
          \/ []<><<WriteRequested>>_vars
          \/ (LockOf(t) = "read" /\ tasks[t].state \in {"waiting", "running", "suspended"})
                ~> (tasks[t].state = "done")

\* C39 witness: a writer waits while a reader that asked before it is in
\* progress and the slot of an earlier request is free for a further one.
RequestsCompleteUnlessWritesKeepComingWitness ==
    /\ tasks[1].state = "new" /\ tasks[1].name # "none"
    /\ LockOf(2) = "write" /\ tasks[2].state = "waiting"
    /\ LockOf(3) = "read" /\ InProgress(3)

\* ------------------------------------------------ claims on cascade assertions
\* The configs the cascade of this step's operation goes over.
CascadeConfigs == get_descendants(cfgs', op'.id) \cup {op'.id}

\* Device d is gone over by the cascade and its plugin is loaded.
CascadeResolves(d) ==
    /\ devs[d].config \in CascadeConfigs
    /\ _dev_get_plugin(loaded, devs[d]) # None

\* C40: the assertions of the config cascades never fail: in cfg_insert and
\* cfg_update every affected device with a loaded plugin has a resolved raw
\* config that is not none; in cfg_delete the resolved raw config is none
\* exactly for the devices on the deleted config; configs with unknown parent
\* configs included.
CascadeAssertionsHold ==
    [][/\ op'.name \in {"cfg_insert", "cfg_update", "cfg_delete"}
          => op'.res # "AssertionError"
       /\ (op'.name \in {"cfg_insert", "cfg_update"} /\ log' # <<>>)
          => \A d \in DOMAIN devs : CascadeResolves(d) =>
                get_raw_config(cfgs', devs[d].config, base_raw_config).found
       /\ (op'.name = "cfg_delete" /\ log' # <<>>)
          => \A d \in DOMAIN devs : CascadeResolves(d) =>
                (~get_raw_config(cfgs', devs[d].config, base_raw_config).found
                    <=> devs[d].config = op'.id)]_vars

\* C40 witness: a cfg_insert or cfg_update has gone over a device with a
\* loaded plugin whose config names a parent that is not stored.
CascadeAssertionsHoldWitness ==
    /\ op.name \in {"cfg_insert", "cfg_update"}
    /\ op.res = "ok"
    /\ Len(log) > 1
    /\ \E d \in DOMAIN devs :
          /\ _dev_get_plugin(loaded, devs[d]) # None
          /\ devs[d].config \in DOMAIN cfgs
          /\ devs[d].config \in get_descendants(cfgs, op.id) \cup {op.id}
          /\ \E p \in Range(cfgs[devs[d].config].parent_ids) : p \notin DOMAIN cfgs
====
